---- MODULE Spec2Model ----
(***************************************************************************)
(* clawstash: passphrase resolution, the CLI commands that drive the       *)
(* restic engine, backup output parsing, snapshot selection and the S3     *)
(* bucket provisioning calls, modelled from the TypeScript sources.        *)
(***************************************************************************)
EXTENDS Integers, Sequences, FiniteSets, TLC

VARIABLES
    cmd,          \* the CLI command (or core function) being run
    opts,         \* its options record (commander opts)
    now,          \* Date.now(), in seconds
    targetTime,   \* findSnapshotByTime's targetTime once it is computed
    inherited,    \* process.env as the CLI process inherited it
    envPass,      \* process.env.CLAWSTASH_PASSPHRASE
    secretStore,  \* what keychain.getPassphrase() resolves to
    configured,   \* whether loadConfig() finds a config file
    configFile,   \* what the config file holds (NoConfig when there is none)
    keychain,     \* the entry of the system keychain (Undefined when none)
    passFile,     \* the content of ~/.clawstash/passphrase (Undefined when none)
    saved,        \* what setPassphrase returned to its caller ("none" before)
    pc,           \* position of the command
    passphrase,   \* the command's local `passphrase`
    logs,         \* log lines written so far
    exitCode,     \* -1 while running, then the process exit code
    engine,       \* restic invocations made so far, in order
    snapshots,    \* the list returned by listSnapshots
    selected,     \* restoreCommand's selectedSnapshot
    output,       \* stdout of the backup engine run (lines)
    result,       \* return value / thrown error of the function under test
    http,         \* HTTP requests issued so far, in order
    net,          \* the answers received to those requests, in order
    probe         \* detectR2Jurisdiction: position in the candidate list

vars == << cmd, opts, now, targetTime, inherited, envPass, secretStore, configured, configFile, keychain, passFile, saved, pc, passphrase, logs,
           exitCode, engine, snapshots, selected, output, result, http, net, probe >>

----------------------------------------------------------------------------
(* Bounds of the model *)

MaxSnaps == 3
MaxTime == 3
MaxLines == 3

----------------------------------------------------------------------------
(* JavaScript values *)

\* undefined / null: an option that was not given, an unset variable
Undefined == "<undefined>"

\* JS truthiness of a string-or-undefined value: `if (opts.passphrase)`
Truthy(v) == v # Undefined /\ v # ""

\* `a ?? b`
Nullish(a, b) == IF a = Undefined THEN b ELSE a

SeqsUpTo(S, n) == UNION { [1..k -> S] : k \in 0..n }

----------------------------------------------------------------------------
(* Passphrase resolution, one copy per command as in the sources *)

\* A log line: its level, its text, and the names the text interpolates:
\* the remediation paths of a passphrase message ("setup": save to keychain
\* through setup, "env": the environment variable, "flag": the --passphrase
\* flag), or the category names of an unknown-category message.
Line(level, text, names) == [level |-> level, text |-> text, names |-> names]

\* The outcome of a resolvePassphrase call: a value, or process.exit(1)
Resolved(v) == [exit |-> FALSE, value |-> v, logs |-> << >>]
GaveUp(lines) == [exit |-> TRUE, value |-> Undefined, logs |-> lines]

\* The three-option message of backup.ts and restore.ts
LongGiveUp ==
    << Line("error", "No passphrase found.", {}),
       Line("info", "Options:", {}),
       Line("info", "  1. Save to keychain:  clawstash setup", {"setup"}),
       Line("info", "  2. Set env var:       export CLAWSTASH_PASSPHRASE=...", {"env"}),
       Line("info", "  3. Pass flag:         --passphrase ...", {"flag"}) >>

\* The one-line message of forget.ts and snapshots.ts
ShortGiveUp ==
    << Line("error", "No passphrase found.", {}),
       Line("info", "Run clawstash setup to save it to keychain, or set CLAWSTASH_PASSPHRASE env var.",
            {"setup", "env"}) >>

\* The keychain is read before the environment variable
BackupResolveEnvLast(o, e, k) ==
    IF Truthy(o.passphrase) THEN Resolved(o.passphrase)
    ELSE IF Truthy(k) THEN Resolved(k)
    ELSE IF Truthy(e) THEN Resolved(e)
    ELSE GaveUp(LongGiveUp)

\* backup.ts resolvePassphrase
BackupResolvePassphrase(o, e, k) ==
    IF Truthy(o.passphrase) THEN Resolved(o.passphrase)
    ELSE IF Truthy(e) THEN Resolved(e)
    ELSE IF Truthy(k) THEN Resolved(k)
    ELSE GaveUp(LongGiveUp)

\* restore.ts resolvePassphrase
RestoreResolvePassphrase(o, e, k) ==
    IF Truthy(o.passphrase) THEN Resolved(o.passphrase)
    ELSE IF Truthy(e) THEN Resolved(e)
    ELSE IF Truthy(k) THEN Resolved(k)
    ELSE GaveUp(LongGiveUp)

\* forget.ts resolvePassphrase
ForgetResolvePassphrase(o, e, k) ==
    IF Truthy(o.passphrase) THEN Resolved(o.passphrase)
    ELSE IF Truthy(e) THEN Resolved(e)
    ELSE IF Truthy(k) THEN Resolved(k)
    ELSE GaveUp(ShortGiveUp)

\* snapshots.ts resolvePassphrase
SnapshotsResolvePassphrase(o, e, k) ==
    IF Truthy(o.passphrase) THEN Resolved(o.passphrase)
    ELSE IF Truthy(e) THEN Resolved(e)
    ELSE IF Truthy(k) THEN Resolved(k)
    ELSE GaveUp(ShortGiveUp)

\* status.ts: opts.passphrase ?? env ?? await getKeychainPassphrase()
StatusPassphrase(o, e, k) == Nullish(o.passphrase, Nullish(e, k))

\* doctor.ts: opts.passphrase ?? env (the keychain is not consulted)
DoctorPassphrase(o, e) == Nullish(o.passphrase, e)

\* The resolvePassphrase of the command `c`
ResolveFor(c, o, e, k) ==
    CASE c = "backup"    -> BackupResolvePassphrase(o, e, k)
      [] c = "restore"   -> RestoreResolvePassphrase(o, e, k)
      [] c = "forget"    -> ForgetResolvePassphrase(o, e, k)
      [] c = "snapshots" -> SnapshotsResolvePassphrase(o, e, k)

----------------------------------------------------------------------------
(* restic.ts: the engine runner and the operations built on it *)

\* The configuration the commands load (the storage target of a setup)
config ==
    [ openclawDir |-> "/home/user/.openclaw",
      storage |-> [provider |-> "r2", bucket |-> "test", accountId |-> "abc",
                   accessKeyId |-> "key", secretAccessKey |-> "secret",
                   endpoint |-> Undefined, region |-> Undefined,
                   jurisdiction |-> Undefined],
      retention |-> [keepLast |-> 7, keepDaily |-> 30,
                     keepWeekly |-> 12, keepMonthly |-> 6],
      exclude |-> << >> ]

\* config.ts DEFAULT_DAEMON, the fields setup overrides
DEFAULT_DAEMON == [enabled |-> FALSE, intervalMinutes |-> 60]

\* The config file: absent, or the record saveConfig wrote (writeJson of
\* the ClawstashConfig; the fields that differ from one setup to another)
NoStorage ==
    [ provider |-> Undefined, bucket |-> Undefined, accountId |-> Undefined,
      accessKeyId |-> Undefined, secretAccessKey |-> Undefined,
      endpoint |-> Undefined, region |-> Undefined, jurisdiction |-> Undefined ]
NoConfig ==
    [ exists |-> FALSE, openclawDir |-> Undefined, storage |-> NoStorage,
      daemon |-> DEFAULT_DAEMON ]
SavedAs(dir, storage, daemon) ==
    [ exists |-> TRUE, openclawDir |-> dir, storage |-> storage, daemon |-> daemon ]
Saved(c) == SavedAs(c.openclawDir, c.storage, DEFAULT_DAEMON)

\* Return values and thrown errors of the functions under test
Return(v) == [kind |-> "return", value |-> v]
Throw(msg) == [kind |-> "throw", value |-> msg]
NoResult == [kind |-> "none", value |-> ""]

\* The provider's rule is applied before the explicit endpoint is looked at
getStorageEndpointProviderFirst(storage) ==
    CASE storage.provider = "r2" ->
           IF ~Truthy(storage.accountId) THEN Throw("R2 requires an accountId")
           ELSE Return("https://" \o storage.accountId
                       \o (IF Truthy(storage.jurisdiction)
                           THEN "." \o storage.jurisdiction ELSE "")
                       \o ".r2.cloudflarestorage.com")
      [] storage.provider = "s3" ->
           Return("https://s3." \o Nullish(storage.region, "us-east-1") \o ".amazonaws.com")
      [] storage.provider = "b2" -> Return("https://s3.us-west-004.backblazeb2.com")
      [] storage.provider = "minio" ->
           IF Truthy(storage.endpoint) THEN Return(storage.endpoint)
           ELSE Throw("MinIO requires a custom endpoint")

\* config.ts getStorageEndpoint
getStorageEndpoint(storage) ==
    IF Truthy(storage.endpoint) THEN Return(storage.endpoint)
    ELSE CASE storage.provider = "r2" ->
                IF ~Truthy(storage.accountId) THEN Throw("R2 requires an accountId")
                ELSE Return("https://" \o storage.accountId
                            \o (IF Truthy(storage.jurisdiction)
                                THEN "." \o storage.jurisdiction ELSE "")
                            \o ".r2.cloudflarestorage.com")
           [] storage.provider = "s3" ->
                Return("https://s3." \o Nullish(storage.region, "us-east-1") \o ".amazonaws.com")
           [] storage.provider = "b2" -> Return("https://s3.us-west-004.backblazeb2.com")
           [] storage.provider = "minio" -> Throw("MinIO requires a custom endpoint")

\* config.ts getResticRepoUrl
getResticRepoUrl(storage) ==
    "s3:" \o getStorageEndpoint(storage).value \o "/" \o storage.bucket

\* The variables of process.env that buildEnv also sets, as inherited
NoInherited ==
    [ RESTIC_REPOSITORY |-> Undefined, RESTIC_PASSWORD |-> Undefined,
      AWS_ACCESS_KEY_ID |-> Undefined, AWS_SECRET_ACCESS_KEY |-> Undefined,
      AWS_DEFAULT_REGION |-> Undefined ]
InheritedEnvs ==
    { [NoInherited EXCEPT !.RESTIC_PASSWORD = p, !.AWS_SECRET_ACCESS_KEY = k] :
        p \in { Undefined, "inherited-pass" }, k \in { Undefined, "inherited-secret" } }

\* The inherited value of every variable is kept
buildEnvInheritedWins(env, storage, pass) ==
    [ RESTIC_REPOSITORY |-> Nullish(env.RESTIC_REPOSITORY, getResticRepoUrl(storage)),
      RESTIC_PASSWORD |-> Nullish(env.RESTIC_PASSWORD, pass),
      AWS_ACCESS_KEY_ID |-> Nullish(env.AWS_ACCESS_KEY_ID, storage.accessKeyId),
      AWS_SECRET_ACCESS_KEY |-> Nullish(env.AWS_SECRET_ACCESS_KEY, storage.secretAccessKey),
      AWS_DEFAULT_REGION |-> Nullish(env.AWS_DEFAULT_REGION, Nullish(storage.region, "auto")) ]

\* restic.ts buildEnv: { ...process.env, <five variables> }
buildEnv(env, storage, pass) ==
    [ env EXCEPT
        !.RESTIC_REPOSITORY = getResticRepoUrl(storage),
        !.RESTIC_PASSWORD = pass,
        !.AWS_ACCESS_KEY_ID = storage.accessKeyId,
        !.AWS_SECRET_ACCESS_KEY = storage.secretAccessKey,
        !.AWS_DEFAULT_REGION = Nullish(storage.region, "auto") ]

\* Path-style addressing is forced for every provider
buildExtraArgsAlways(storage) == << "-o", "s3.bucket-lookup=path" >>

\* restic.ts buildExtraArgs
buildExtraArgs(storage) ==
    IF storage.provider # "s3" THEN << "-o", "s3.bucket-lookup=path" >> ELSE << >>

\* How an engine process ends for execFile: exit code 0, a nonzero exit
\* code, the timeout, or stdout beyond maxBuffer
Failures == { "nonzero", "timeout", "maxBuffer" }
Outcomes == { "ok" } \cup Failures

\* The rejection of execFileAsync for a failed process
ExecError(how) ==
    CASE how = "nonzero" -> Throw("Command failed")
      [] how = "timeout" -> Throw("Command failed (killed by timeout)")
      [] how = "maxBuffer" -> Throw("stdout maxBuffer length exceeded")

\* One engine process as runResticRaw / runRestic start it with execFile:
\* the argument vector and the environment; it is running until it ends
Spawned(args, ropts) ==
    [ args |-> buildExtraArgs(ropts.storage) \o args,
      env |-> buildEnv(inherited, ropts.storage, ropts.passphrase),
      running |-> TRUE,
      ok |-> FALSE,
      how |-> "running" ]

\* The process has ended in the way `how`
Exited(inv, how) == [inv EXCEPT !.running = FALSE, !.ok = (how = "ok"), !.how = how]

\* { storage: config.storage, passphrase }
ResticOptions(pass) == [storage |-> config.storage, passphrase |-> pass]

\* The engine processes of the command that have not ended
Running == { i \in DOMAIN engine : engine[i].running }

\* Lines the engine can print on stdout
StatusLine == "{\"message_type\":\"status\",\"percent_done\":0.5}"
SummaryA == "{\"message_type\":\"summary\",\"snapshot_id\":\"aaaaaaaa\"}"
SummaryB == "{\"message_type\":\"summary\",\"snapshot_id\":\"bbbbbbbb\"}"
LineTexts == { "", "repository opened", "null", StatusLine, SummaryA, SummaryB }

\* What `snapshots --json` and `stats --json` print
SnapshotsText == "[{\"id\":\"1\",\"short_id\":\"1\",\"time\":\"2026-01-01T00:00:00Z\"}]"
StatsText == "{\"total_size\":1024,\"total_file_count\":3}"

\* JSON.parse of one line: whether it parses, the type of the value, whether
\* it is an object (reading .message_type of null throws, of a number or an
\* array is undefined), and the two fields backup() reads.
JSONparse(text) ==
    CASE text = "null" ->
           [ok |-> TRUE, type |-> "null", object |-> FALSE,
            message_type |-> Undefined, snapshot_id |-> Undefined]
      [] text = "[]" ->
           [ok |-> TRUE, type |-> "array", object |-> TRUE,
            message_type |-> Undefined, snapshot_id |-> Undefined]
      [] text = SnapshotsText ->
           [ok |-> TRUE, type |-> "array", object |-> TRUE,
            message_type |-> Undefined, snapshot_id |-> Undefined]
      [] text = StatsText ->
           [ok |-> TRUE, type |-> "object", object |-> TRUE,
            message_type |-> Undefined, snapshot_id |-> Undefined]
      [] text = StatusLine ->
           [ok |-> TRUE, type |-> "object", object |-> TRUE,
            message_type |-> "status", snapshot_id |-> Undefined]
      [] text = SummaryA ->
           [ok |-> TRUE, type |-> "object", object |-> TRUE,
            message_type |-> "summary", snapshot_id |-> "aaaaaaaa"]
      [] text = SummaryB ->
           [ok |-> TRUE, type |-> "object", object |-> TRUE,
            message_type |-> "summary", snapshot_id |-> "bbbbbbbb"]
      [] OTHER ->
           [ok |-> FALSE, type |-> "none", object |-> FALSE,
            message_type |-> Undefined, snapshot_id |-> Undefined]

\* The number of elements of the array a text parses to
ArrayLength(text) == IF text = SnapshotsText THEN 1 ELSE 0

\* output.trim().split("\n"): an empty output is the one empty line
SplitLines(out) == IF out = << >> THEN << "" >> ELSE out

\* The summary scan of backup(), reading the lines from the first one
RECURSIVE ScanForward(_, _)
ScanForward(lines, i) ==
    IF i > Len(lines) THEN Throw("No backup summary found in restic output")
    ELSE LET parsed == JSONparse(lines[i]) IN
         IF parsed.ok /\ parsed.object /\ parsed.message_type = "summary"
         THEN Return(parsed.snapshot_id)
         ELSE ScanForward(lines, i + 1)

backupFirstSummary(out) == ScanForward(SplitLines(out), 1)

\* restic.ts backup(), lines 213-225: for (i = lines.length - 1; i >= 0; i--)
RECURSIVE ScanBack(_, _)
ScanBack(lines, i) ==
    IF i = 0 THEN Throw("No backup summary found in restic output")
    ELSE LET parsed == JSONparse(lines[i]) IN
         IF parsed.ok /\ parsed.object /\ parsed.message_type = "summary"
         THEN Return(parsed.snapshot_id)
         ELSE ScanBack(lines, i - 1)

\* restic.ts backup(): the parse of the raw output into the summary
backupParse(out) == ScanBack(SplitLines(out), Len(SplitLines(out)))

\* An optional string[] (includes, excludes, tags): undefined or the items;
\* from getCategoryIncludes also process.exit(1) for an unknown category
NoIncludes == [exit |-> FALSE, given |-> FALSE, patterns |-> << >>]
Includes(p) == [exit |-> FALSE, given |-> TRUE, patterns |-> p]
UnknownCategory == [exit |-> TRUE, given |-> FALSE, patterns |-> << >>]

\* One `flag item` pair per item, as the push loops of restic.ts make them
RECURSIVE Flagged(_, _)
Flagged(flag, items) ==
    IF items = << >> THEN << >>
    ELSE << flag, Head(items) >> \o Flagged(flag, Tail(items))

\* restic.ts backup(): the argument vector
backupArgs(sourceDir, tags, excludes, includes, dryRun) ==
    << "backup", sourceDir, "--json" >>
      \o Flagged("--tag", tags)
      \o Flagged("--exclude", excludes)
      \o (IF includes.given THEN Flagged("--include", includes.patterns) ELSE << >>)
      \o (IF dryRun THEN << "--dry-run" >> ELSE << >>)

\* restic.ts restore(): the argument vector; the function takes no dry-run
\* option and adds no --dry-run flag
restoreArgs(snapshotId, targetDir, include, exclude) ==
    << "restore", snapshotId, "--target", targetDir >>
      \o (IF include.given THEN Flagged("--include", include.patterns) ELSE << >>)
      \o (IF exclude.given THEN Flagged("--exclude", exclude.patterns) ELSE << >>)

\* String(n) for a non-negative integer
Digit(d) == CASE d = 0 -> "0" [] d = 1 -> "1" [] d = 2 -> "2" [] d = 3 -> "3"
              [] d = 4 -> "4" [] d = 5 -> "5" [] d = 6 -> "6" [] d = 7 -> "7"
              [] d = 8 -> "8" [] d = 9 -> "9"
RECURSIVE String(_)
String(n) == IF n < 10 THEN Digit(n) ELSE String(n \div 10) \o Digit(n % 10)

\* `if (retention.keepX)`: the field is present and its number is not 0
TruthyField(retention, field) == field \in DOMAIN retention /\ retention[field] # 0

\* A pair for every field that is present, a zero included
KeepAlways(retention, field, flag) ==
    IF field \in DOMAIN retention THEN << flag, String(retention[field]) >> ELSE << >>

\* if (retention.keepX) args.push("--keep-x", String(retention.keepX))
Keep(retention, field, flag) ==
    IF TruthyField(retention, field) THEN << flag, String(retention[field]) >> ELSE << >>

\* restic.ts forget(): the argument vector
forgetArgs(retention) ==
    << "forget", "--prune", "--json" >>
      \o Keep(retention, "keepLast", "--keep-last")
      \o Keep(retention, "keepDaily", "--keep-daily")
      \o Keep(retention, "keepWeekly", "--keep-weekly")
      \o Keep(retention, "keepMonthly", "--keep-monthly")

\* restic.ts listSnapshots(): the argument vector
listSnapshotsArgs(tags) ==
    << "snapshots", "--json" >>
      \o (IF tags.given THEN Flagged("--tag", tags.patterns) ELSE << >>)

\* restic.ts initRepo, checkRepo, stats, check: the argument vectors
initRepoArgs == << "init", "--json" >>
checkRepoArgs == << "cat", "config", "--json" >>
statsArgs == << "stats", "--json", "--mode", "raw-data" >>
checkArgs == << "check" >>

----------------------------------------------------------------------------
(* The --only category maps of backup.ts and restore.ts *)

\* Object.keys(map) of backup.ts and of restore.ts
BackupCategories ==
    { "config", "secrets", "workspace", "sessions", "memory", "skills", "agents", "settings" }
RestoreCategories == { "config", "secrets", "workspace", "sessions", "memory" }

\* backup.ts getCategoryIncludes
BackupCategoryIncludes(only) ==
    CASE ~Truthy(only) -> NoIncludes
      [] only = "config" -> Includes(<< "openclaw.json", "openclaw.json5", ".env" >>)
      [] only = "secrets" -> Includes(<< "credentials/**", "auth/**", ".env" >>)
      [] only = "workspace" -> Includes(<< "workspace/**", "workspace-*/**" >>)
      [] only = "sessions" -> Includes(<< "agents/*/sessions/**" >>)
      [] only = "memory" -> Includes(<< "memory/**" >>)
      [] only = "skills" -> Includes(<< "skills/**", "workspace/skills/**" >>)
      [] only = "agents" -> Includes(<< "agents/*/agent/**" >>)
      [] only = "settings" -> Includes(<< "settings/**" >>)
      [] OTHER -> UnknownCategory

\* restore.ts getCategoryIncludes
RestoreCategoryIncludes(only) ==
    CASE ~Truthy(only) -> NoIncludes
      [] only = "config" -> Includes(<< "**/openclaw.json", "**/.env" >>)
      [] only = "secrets" -> Includes(<< "**/credentials/**", "**/auth/**" >>)
      [] only = "workspace" -> Includes(<< "**/workspace/**" >>)
      [] only = "sessions" -> Includes(<< "**/agents/*/sessions/**" >>)
      [] only = "memory" -> Includes(<< "**/agents/*/memory.sqlite", "**/agents/*/memory.db" >>)
      [] OTHER -> UnknownCategory

----------------------------------------------------------------------------
(* Snapshots and restore.ts findSnapshotByTime *)

\* new Date(s).getTime(): a number of milliseconds, or NaN
NaN == [valid |-> FALSE, sec |-> 0]
Instant(t) == [valid |-> TRUE, sec |-> t]

Abs(x) == IF x < 0 THEN -x ELSE x

\* Math.abs(snapTime - targetTime); NaN when the snapshot time is NaN
Diff(snapTime, target) ==
    IF snapTime.valid THEN Instant(Abs(snapTime.sec - target)) ELSE NaN

\* `diff <= bestDiff`: a later snapshot at the same distance replaces best
LessOrEqual(diff, inf, bestDiff) == diff.valid /\ (inf \/ diff.sec <= bestDiff)

\* `diff < bestDiff` with bestDiff starting at Infinity (inf); false for NaN
Less(diff, inf, bestDiff) == diff.valid /\ (inf \/ diff.sec < bestDiff)

\* The position in the list of the snapshot the scan of lines 466-476 ends
\* with (0 for null), from position i with the best found so far
RECURSIVE ClosestFrom(_, _, _, _, _, _)
ClosestFrom(snaps, target, i, best, inf, bestDiff) ==
    IF i > Len(snaps) THEN best
    ELSE LET diff == Diff(snaps[i].time, target) IN
         IF Less(diff, inf, bestDiff)
         THEN ClosestFrom(snaps, target, i + 1, i, FALSE, diff.sec)
         ELSE ClosestFrom(snaps, target, i + 1, best, inf, bestDiff)

\* restore.ts findSnapshotByTime, lines 465-478: best = null, bestDiff = Infinity
Closest(snaps, target) == ClosestFrom(snaps, target, 1, 0, TRUE, 0)

\* A --at value: absent, a text that new Date() cannot parse, the ISO text
\* of the instant sec, or whitespace-separated words
NoAt == [kind |-> "none", sec |-> 0, words |-> << >>]
InvalidAt == [kind |-> "invalid", sec |-> 0, words |-> << >>]
InstantAt(t) == [kind |-> "instant", sec |-> t, words |-> << >>]
WordsAt(w) == [kind |-> "words", sec |-> 0, words |-> w]

\* toLowerCase, and the matching of the regular expression of line 445 under
\* its i flag, on the words of the model
ToLowerCase(w) ==
    CASE w = "MINUTES" -> "minutes" [] w = "Hours" -> "hours" [] w = "WEEKS" -> "weeks"
      [] w = "Month" -> "month" [] w = "AGO" -> "ago"
      [] OTHER -> w

\* (\d+) and parseInt(..., 10)
IsDigits(w) == w \in { "0", "1", "3", "12" }
parseInt(w) == CASE w = "0" -> 0 [] w = "1" -> 1 [] w = "3" -> 3 [] w = "12" -> 12

\* (minute|hour|day|week|month)s? : the captured unit, lower-cased
UnitGroup(w) ==
    CASE ToLowerCase(w) \in { "minute", "minutes" } -> "minute"
      [] ToLowerCase(w) \in { "hour", "hours" } -> "hour"
      [] ToLowerCase(w) \in { "day", "days" } -> "day"
      [] ToLowerCase(w) \in { "week", "weeks" } -> "week"
      [] ToLowerCase(w) \in { "month", "months" } -> "month"
      [] OTHER -> Undefined

\* timeStr.match(/^(\d+)\s+(minute|hour|day|week|month)s?\s+ago$/i)
relativeMatch(at) ==
    /\ at.kind = "words"
    /\ Len(at.words) = 3
    /\ IsDigits(at.words[1])
    /\ UnitGroup(at.words[2]) # Undefined
    /\ ToLowerCase(at.words[3]) = "ago"

\* A month of 31 days
multipliersLongMonth(unit) ==
    CASE unit = "minute" -> 60 [] unit = "hour" -> 3600 [] unit = "day" -> 86400
      [] unit = "week" -> 604800 [] unit = "month" -> 2678400

\* restore.ts lines 449-455, in seconds (the code's milliseconds / 1000)
multipliers(unit) ==
    CASE unit = "minute" -> 60 [] unit = "hour" -> 3600 [] unit = "day" -> 86400
      [] unit = "week" -> 604800 [] unit = "month" -> 2592000

\* new Date(timeStr).getTime() for a text that is not a relative expression;
\* what it gives for words outside the ISO format is up to the runtime
\* (legacy: NaN or an instant)
DateParse(at, legacy) ==
    CASE at.kind = "instant" -> Instant(at.sec)
      [] at.kind = "invalid" -> NaN
      [] at.kind = "words" -> legacy

\* restore.ts lines 442-463: targetTime, NaN when the text does not parse
ResolveTime(at, clock, legacy) ==
    IF relativeMatch(at)
    THEN Instant(clock - parseInt(at.words[1]) * multipliers(UnitGroup(at.words[2])))
    ELSE DateParse(at, legacy)

\* restore.ts findSnapshotByTime: process.exit(1) for an unparseable time
\* expression, else the position of the closest snapshot (0: null)
findSnapshotByTime(snaps, at, clock, legacy) ==
    LET target == ResolveTime(at, clock, legacy) IN
    IF ~target.valid THEN [exit |-> TRUE, best |-> 0, targetTime |-> target]
    ELSE [exit |-> FALSE, best |-> Closest(snaps, target.sec), targetTime |-> target]

\* The local targetTime before and after lines 442-463
NoTarget == [resolved |-> FALSE, time |-> NaN]
Target(t) == [resolved |-> TRUE, time |-> t]

\* Date.now(): an instant ninety days after the epoch, or a second later
Now == 7776000
Nows == { Now, Now + 1 }

\* What new Date() can give for words outside the ISO format
LegacyParses == { NaN, Instant(0) }

\* The snapshot list the engine's JSON holds for a list of times: ids by
\* position, as listSnapshots returns them
SnapshotList(times) ==
    [ i \in 1..Len(times) |-> [id |-> String(i), time |-> times[i]] ]

----------------------------------------------------------------------------
(* The CLI commands *)

Commands == { "backup", "restore", "forget", "snapshots", "status", "doctor" }

\* Values of the three passphrase sources
OverrideValues == { Undefined, "", "flag-pass" }
EnvValues == { Undefined, "", "env-pass" }
StoreValues == { Undefined, "keychain-pass" }

\* --only as given on the command line
OnlyValues == { Undefined, "config", "skills", "bogus" }

\* The words of the time expressions
AmountWords == { "1", "12", "three" }
UnitWords ==
    { "minute", "MINUTES", "hour", "Hours", "day", "days", "week", "WEEKS",
      "Month", "months", "year", "dayss" }
AgoWords == { "ago", "AGO", "later" }

\* --at as given on the command line
AtValues ==
    { NoAt, InvalidAt } \cup { InstantAt(t) : t \in 0..MaxTime }
      \cup { WordsAt(<< n, u, a >>) : n \in AmountWords, u \in UnitWords, a \in AgoWords }
      \cup { WordsAt(<< "3", "days" >>), WordsAt(<< "days", "ago" >>) }

\* The --at values of the runs of all commands together
CmdAtValues ==
    { NoAt, InvalidAt } \cup { InstantAt(t) : t \in 0..MaxTime }
      \cup { WordsAt(<< "1", "day", "ago" >>), WordsAt(<< "1", "year", "ago" >>) }

\* Timestamps of the snapshots the engine lists
TimeValues == { NaN } \cup { Instant(t) : t \in 0..MaxTime }

\* Lists of snapshots the engine returns to a command
MaxCmdSnaps == 2
CmdSnapshotLists == { SnapshotList(ts) : ts \in SeqsUpTo(TimeValues, MaxCmdSnaps) }

\* Outputs of the backup engine run inside backupCommand
CmdOutputs == { << >>, << StatusLine, SummaryA >>, << SummaryA, StatusLine, SummaryB >> }

DefaultOpts ==
    [ passphrase |-> Undefined, only |-> Undefined, at |-> NoAt,
      target |-> Undefined, dryRun |-> FALSE, forget |-> TRUE ]

\* The option records commander can hand to each command
OptsFor(c) ==
    CASE c = "backup" ->
           { [DefaultOpts EXCEPT !.passphrase = p, !.only = o, !.dryRun = d, !.forget = f] :
               p \in OverrideValues, o \in OnlyValues, d \in BOOLEAN, f \in BOOLEAN }
      [] c = "restore" ->
           { [DefaultOpts EXCEPT !.passphrase = p, !.only = o, !.dryRun = d, !.at = a, !.target = t] :
               p \in OverrideValues, o \in OnlyValues, d \in BOOLEAN, a \in CmdAtValues,
               t \in { Undefined, "/tmp/restore" } }
      [] OTHER ->
           { [DefaultOpts EXCEPT !.passphrase = p] : p \in OverrideValues }

Idle ==
    /\ targetTime = NoTarget
    /\ inherited = NoInherited
    /\ passphrase = Undefined
    /\ logs = << >>
    /\ exitCode = -1
    /\ engine = << >>
    /\ snapshots = << >>
    /\ selected = 0
    /\ output = << >>
    /\ result = NoResult
    /\ http = << >>
    /\ net = << >>
    /\ probe = 0

InitCmd ==
    /\ cmd \in Commands
    /\ opts \in OptsFor(cmd)
    /\ envPass \in EnvValues
    /\ secretStore \in StoreValues
    /\ configured \in BOOLEAN
    /\ configFile = (IF configured THEN Saved(config) ELSE NoConfig)
    /\ keychain = secretStore
    /\ passFile = Undefined
    /\ saved = "none"
    /\ pc = IF cmd = "doctor" THEN "resolve" ELSE "start"
    /\ now = Now
    /\ Idle

\* The command ends: process.exit(code), an uncaught rejection (1), or a
\* normal return (0)
Finish(code, lines) ==
    /\ pc' = "done"
    /\ exitCode' = code
    /\ logs' = logs \o lines

Goto(label) ==
    /\ pc' = label
    /\ UNCHANGED << exitCode, logs >>

\* A loader that writes the record back after reading it (saveConfig of the
\* defaults when no file exists)
LoadConfigSaving ==
    /\ pc = "start"
    /\ IF configured
       THEN Goto("resolve")
       ELSE Finish(1, << Line("error", "not configured", {}) >>)
    /\ configFile' = Saved(config)
    /\ UNCHANGED << cmd, opts, now, targetTime, inherited, envPass, secretStore, configured, keychain, passFile, saved, passphrase, engine,
                    snapshots, selected, output, result, http, net, probe >>

\* requireConfig() of backup, restore, forget, snapshots; loadConfig() and
\* the not-configured exit of status
LoadConfig ==
    /\ pc = "start"
    /\ IF configured
       THEN Goto("resolve")
       ELSE Finish(1, << Line("error", "not configured", {}) >>)
    /\ UNCHANGED << cmd, opts, now, targetTime, inherited, envPass, secretStore, configured, configFile, keychain, passFile, saved, passphrase, engine,
                    snapshots, selected, output, result, http, net, probe >>

AfterResolve(c) ==
    CASE c = "backup" -> "backup"
      [] c = "restore" -> "restore_list"
      [] c = "forget" -> "forget_before"
      [] c = "snapshots" -> "snapshots_list"

\* resolvePassphrase(opts) of backup, restore, forget and snapshots
ResolvePassphrase ==
    /\ pc = "resolve"
    /\ cmd \in { "backup", "restore", "forget", "snapshots" }
    /\ LET r == ResolveFor(cmd, opts, envPass, secretStore) IN
       IF r.exit
       THEN Finish(1, r.logs) /\ UNCHANGED passphrase
       ELSE Goto(AfterResolve(cmd)) /\ passphrase' = r.value
    /\ UNCHANGED << cmd, opts, now, targetTime, inherited, envPass, secretStore, configured, configFile, keychain, passFile, saved, engine,
                    snapshots, selected, output, result, http, net, probe >>

\* status.ts lines 36-45
StatusResolve ==
    /\ pc = "resolve"
    /\ cmd = "status"
    /\ passphrase' = StatusPassphrase(opts, envPass, secretStore)
    /\ IF Truthy(passphrase')
       THEN Goto("status_remote")
       ELSE Finish(0, << Line("info", "Set CLAWSTASH_PASSPHRASE or save to keychain via clawstash setup.",
                               {"env", "setup"}) >>)
    /\ UNCHANGED << cmd, opts, now, targetTime, inherited, envPass, secretStore, configured, configFile, keychain, passFile, saved, engine,
                    snapshots, selected, output, result, http, net, probe >>

\* doctor.ts line 10
DoctorResolve ==
    /\ pc = "resolve"
    /\ cmd = "doctor"
    /\ passphrase' = DoctorPassphrase(opts, envPass)
    /\ Goto("doctor_checks")
    /\ UNCHANGED << cmd, opts, now, targetTime, inherited, envPass, secretStore, configured, configFile, keychain, passFile, saved, engine,
                    snapshots, selected, output, result, http, net, probe >>

\* execFile starts an engine process for the command
Spawn(args) == engine' = Append(engine, Spawned(args, ResticOptions(passphrase)))

\* The command goes on while the process is still running
AwaitNothing(how) == UNCHANGED engine

\* The awaited engine process (the one started last) ends
Await(how) == engine' = [engine EXCEPT ![Len(engine)] = Exited(@, how)]

\* The command moves on to `label`, logging `lines`
Step(label, lines) ==
    /\ pc' = label
    /\ logs' = logs \o lines
    /\ UNCHANGED exitCode

\* The two lines getCategoryIncludes logs for an unknown --only value
UnknownCategoryLines(only, valid) ==
    << Line("error", "Unknown category: " \o only, {}),
       Line("info", "Valid categories", valid) >>

\* openclaw.ts DEFAULT_EXCLUDES
DEFAULT_EXCLUDES ==
    << "*.lock", "gateway.lock", "*.tmp", "*.temp", "*-wal", "*-shm", "node_modules",
       ".DS_Store", "Thumbs.db", "*.log", "cache/", ".cache/", "sandboxes/",
       "*/qmd/xdg-cache/" >>

\* backupCommand lines 76-116: the directory scan, the tags, the --only
\* patterns and the start of the engine backup
BackupRun ==
    /\ pc = "backup"
    /\ \E dirExists \in BOOLEAN :
         LET includes == BackupCategoryIncludes(opts.only)
             tags == IF Truthy(opts.only) THEN << "clawstash", opts.only >> ELSE << "clawstash" >>
             args == backupArgs(config.openclawDir, tags, DEFAULT_EXCLUDES \o config.exclude,
                                includes, opts.dryRun)
         IN IF ~dirExists
            THEN /\ Finish(1, << Line("error", "OpenClaw directory not found", {}) >>)
                 /\ UNCHANGED engine
            ELSE IF includes.exit
            THEN /\ Finish(1, UnknownCategoryLines(opts.only, BackupCategories))
                 /\ UNCHANGED engine
            ELSE /\ Spawn(args)
                 /\ Goto("backup_wait")
    /\ UNCHANGED << cmd, opts, now, targetTime, inherited, envPass, secretStore, configured, configFile, keychain, passFile, saved, passphrase,
                    snapshots, selected, output, result, http, net, probe >>

\* The retention policy is applied on a dry run too
AppliesRetentionOnDryRun(o) == o.forget # FALSE

\* backupCommand line 143: if (!opts.dryRun && opts.forget !== false)
AppliesRetention(o) == ~o.dryRun /\ o.forget # FALSE

\* backupCommand lines 108-140: backup() settles; its error ends the command
BackupAwait ==
    /\ pc = "backup_wait"
    /\ \E how \in Outcomes, out \in CmdOutputs :
         LET summary == IF how = "ok" THEN backupParse(out) ELSE ExecError(how) IN
         /\ Await(how)
         /\ output' = IF how = "ok" THEN out ELSE << >>
         /\ result' = summary
         /\ IF summary.kind = "throw"
            THEN Finish(1, << Line("error", summary.value, {}) >>)
            ELSE LET done == << Line("header", IF opts.dryRun THEN "Dry run complete"
                                               ELSE "Backup complete", {}) >>
                 IN IF AppliesRetention(opts)
                    THEN Step("retention", done)
                    ELSE Finish(0, done)
    /\ UNCHANGED << cmd, opts, now, targetTime, inherited, envPass, secretStore, configured, configFile, keychain, passFile, saved, passphrase,
                    snapshots, selected, http, net, probe >>

\* backupCommand lines 143-149: the retention policy after the backup
BackupForget ==
    /\ pc = "retention"
    /\ Spawn(forgetArgs(config.retention))
    /\ Goto("retention_wait")
    /\ UNCHANGED << cmd, opts, now, targetTime, inherited, envPass, secretStore, configured, configFile, keychain, passFile, saved, passphrase,
                    snapshots, selected, output, result, http, net, probe >>

\* A failure of forget() ends the command like a failure of backup()
BackupForgetFatal ==
    /\ pc = "retention_wait"
    /\ \E how \in Outcomes :
         /\ Await(how)
         /\ IF how = "ok"
            THEN Finish(0, << Line("success", "Retention policy applied", {}) >>)
            ELSE Finish(1, << Line("error", ExecError(how).value, {}) >>)
    /\ UNCHANGED << cmd, opts, now, targetTime, inherited, envPass, secretStore, configured, configFile, keychain, passFile, saved, passphrase,
                    snapshots, selected, output, result, http, net, probe >>

\* backupCommand lines 150-154: forget() settles; its error is caught,
\* shown as a warning and logged at debug level
BackupForgetAwait ==
    /\ pc = "retention_wait"
    /\ \E how \in Outcomes :
         /\ Await(how)
         /\ Finish(0, IF how = "ok"
                      THEN << Line("success", "Retention policy applied", {}) >>
                      ELSE << Line("warn", "Retention policy failed (backup was successful)", {}),
                              Line("debug", ExecError(how).value, {}) >>)
    /\ UNCHANGED << cmd, opts, now, targetTime, inherited, envPass, secretStore, configured, configFile, keychain, passFile, saved, passphrase,
                    snapshots, selected, output, result, http, net, probe >>

\* restore.ts line 512: snapshots[snapshots.length - 1]
Latest(snaps) == Len(snaps)

\* restoreCommand line 491: listSnapshots is started
RestoreList ==
    /\ pc = "restore_list"
    /\ Spawn(listSnapshotsArgs(NoIncludes))
    /\ Goto("restore_list_wait")
    /\ UNCHANGED << cmd, opts, now, targetTime, inherited, envPass, secretStore, configured, configFile, keychain, passFile, saved, passphrase,
                    snapshots, selected, output, result, http, net, probe >>

\* restoreCommand lines 491-516: the list arrives and a snapshot is selected
RestoreListed ==
    /\ pc = "restore_list_wait"
    /\ \E how \in Outcomes, list \in CmdSnapshotLists, legacy \in LegacyParses :
         /\ Await(how)
         /\ snapshots' = IF how = "ok" THEN list ELSE << >>
         /\ IF how # "ok"
            THEN /\ Finish(1, << Line("error", ExecError(how).value, {}) >>)
                 /\ UNCHANGED << selected, targetTime >>
            ELSE IF Len(list) = 0
            THEN /\ Finish(1, << Line("error", "No snapshots found.", {}) >>)
                 /\ UNCHANGED << selected, targetTime >>
            ELSE IF opts.at.kind # "none"
            THEN LET found == findSnapshotByTime(list, opts.at, now, legacy) IN
                 /\ targetTime' = Target(found.targetTime)
                 /\ IF found.exit
                    THEN Finish(1, << Line("error", "Cannot parse time", {}) >>) /\ UNCHANGED selected
                    ELSE IF found.best = 0
                    THEN Finish(1, << Line("error", "No snapshot found near that time.", {}) >>)
                         /\ UNCHANGED selected
                    ELSE Goto("restore_confirm") /\ selected' = found.best
            ELSE Goto("restore_confirm") /\ selected' = Latest(list) /\ UNCHANGED targetTime
    /\ UNCHANGED << cmd, opts, now, inherited, envPass, secretStore, configured, configFile, keychain, passFile, saved, passphrase,
                    output, result, http, net, probe >>

\* restore.ts line 519: opts.target ?? config.openclawDir
TargetDir(o) == Nullish(o.target, config.openclawDir)

\* restoreCommand lines 521-541: the confirmation and the --only patterns
RestoreConfirm ==
    /\ pc = "restore_confirm"
    /\ \E targetExists \in BOOLEAN, confirmed \in BOOLEAN :
         IF ~opts.dryRun /\ targetExists /\ ~Truthy(opts.target) /\ ~confirmed
         THEN Finish(0, << Line("info", "Restore cancelled.", {}) >>)
         ELSE IF RestoreCategoryIncludes(opts.only).exit
         THEN Finish(1, UnknownCategoryLines(opts.only, RestoreCategories))
         ELSE Goto("restore_run")
    /\ UNCHANGED << cmd, opts, now, targetTime, inherited, envPass, secretStore, configured, configFile, keychain, passFile, saved, passphrase, engine,
                    snapshots, selected, output, result, http, net, probe >>

\* restoreCommand lines 550-557: the engine restore is started
RestoreRun ==
    /\ pc = "restore_run"
    /\ Spawn(restoreArgs(snapshots[selected].id, TargetDir(opts),
                         RestoreCategoryIncludes(opts.only), NoIncludes))
    /\ Goto("restore_wait")
    /\ UNCHANGED << cmd, opts, now, targetTime, inherited, envPass, secretStore, configured, configFile, keychain, passFile, saved, passphrase,
                    snapshots, selected, output, result, http, net, probe >>

\* restoreCommand lines 559-577: restore() settles
RestoreAwait ==
    /\ pc = "restore_wait"
    /\ \E how \in Outcomes :
         /\ Await(how)
         /\ IF how = "ok"
            THEN Finish(0, << Line("header", IF opts.dryRun THEN "Dry run complete"
                                              ELSE "Restore complete", {}) >>)
            ELSE Finish(1, << Line("error", ExecError(how).value, {}) >>)
    /\ UNCHANGED << cmd, opts, now, targetTime, inherited, envPass, secretStore, configured, configFile, keychain, passFile, saved, passphrase,
                    snapshots, selected, output, result, http, net, probe >>

\* forgetCommand lines 31, 36, 40: listSnapshots, forget, listSnapshots,
\* each started when the command reaches it
ForgetCommand ==
    /\ pc \in { "forget_before", "forget_run", "forget_after" }
    /\ Spawn(IF pc = "forget_run" THEN forgetArgs(config.retention) ELSE listSnapshotsArgs(NoIncludes))
    /\ Goto(pc \o "_wait")
    /\ UNCHANGED << cmd, opts, now, targetTime, inherited, envPass, secretStore, configured, configFile, keychain, passFile, saved, passphrase,
                    snapshots, selected, output, result, http, net, probe >>

\* forgetCommand: the awaited call settles; an error ends the command
ForgetAwait ==
    /\ pc \in { "forget_before_wait", "forget_run_wait", "forget_after_wait" }
    /\ \E how \in Outcomes :
         /\ Await(how)
         /\ IF how # "ok" THEN Finish(1, << Line("error", ExecError(how).value, {}) >>)
            ELSE IF pc = "forget_before_wait" THEN Goto("forget_run")
            ELSE IF pc = "forget_run_wait" THEN Goto("forget_after")
            ELSE Finish(0, << Line("header", "Retention applied", {}) >>)
    /\ UNCHANGED << cmd, opts, now, targetTime, inherited, envPass, secretStore, configured, configFile, keychain, passFile, saved, passphrase,
                    snapshots, selected, output, result, http, net, probe >>

\* snapshotsCommand: listSnapshots is started
SnapshotsCommand ==
    /\ pc = "snapshots_list"
    /\ Spawn(listSnapshotsArgs(NoIncludes))
    /\ Goto("snapshots_wait")
    /\ UNCHANGED << cmd, opts, now, targetTime, inherited, envPass, secretStore, configured, configFile, keychain, passFile, saved, passphrase,
                    snapshots, selected, output, result, http, net, probe >>

\* snapshotsCommand: the list arrives
SnapshotsAwait ==
    /\ pc = "snapshots_wait"
    /\ \E how \in Outcomes, list \in CmdSnapshotLists :
         /\ Await(how)
         /\ snapshots' = IF how = "ok" THEN list ELSE << >>
         /\ Finish(IF how = "ok" THEN 0 ELSE 1, << >>)
    /\ UNCHANGED << cmd, opts, now, targetTime, inherited, envPass, secretStore, configured, configFile, keychain, passFile, saved, passphrase,
                    selected, output, result, http, net, probe >>

\* statusCommand lines 53-56: Promise.all([listSnapshots(...), stats(...)])
\* calls both functions, and each starts its engine process, before either
\* is awaited
StatusRemote ==
    /\ pc = "status_remote"
    /\ engine' = engine \o << Spawned(listSnapshotsArgs(NoIncludes), ResticOptions(passphrase)),
                              Spawned(statsArgs, ResticOptions(passphrase)) >>
    /\ Goto("status_wait")
    /\ UNCHANGED << cmd, opts, now, targetTime, inherited, envPass, secretStore, configured, configFile, keychain, passFile, saved, passphrase,
                    snapshots, selected, output, result, http, net, probe >>

\* statusCommand lines 53-92: one of the two processes ends; the first
\* failure rejects Promise.all and is logged by the catch block, and the
\* command is over when both have ended
StatusAwait ==
    /\ pc = "status_wait"
    /\ \E i \in Running, how \in Outcomes :
         /\ engine' = [engine EXCEPT ![i] = Exited(@, how)]
         /\ logs' = IF how # "ok" /\ (\A j \in DOMAIN engine : engine[j].running \/ engine[j].ok)
                    THEN logs \o << Line("error", ExecError(how).value, {}) >>
                    ELSE logs
         /\ IF Running = { i }
            THEN pc' = "done" /\ exitCode' = 0
            ELSE UNCHANGED << pc, exitCode >>
    /\ UNCHANGED << cmd, opts, now, targetTime, inherited, envPass, secretStore, configured, configFile, keychain, passFile, saved, passphrase,
                    snapshots, selected, output, result, http, net, probe >>

\* health.ts runHealthChecks, check 5: checkRepo when config and passphrase
DoctorChecks ==
    /\ pc = "doctor_checks"
    /\ IF configured /\ Truthy(passphrase)
       THEN /\ Spawn(checkRepoArgs)
            /\ Goto("doctor_wait")
       ELSE /\ UNCHANGED engine
            /\ Finish(0, IF configured
                         THEN << Line("warn", "Skipped (no passphrase provided, use --passphrase or CLAWSTASH_PASSPHRASE)",
                                      {"flag", "env"}) >>
                         ELSE << >>)
    /\ UNCHANGED << cmd, opts, now, targetTime, inherited, envPass, secretStore, configured, configFile, keychain, passFile, saved, passphrase,
                    snapshots, selected, output, result, http, net, probe >>

\* health.ts lines 81-97: checkRepo settles with true or false
DoctorAwait ==
    /\ pc = "doctor_wait"
    /\ \E how \in Outcomes :
         /\ Await(how)
         /\ Finish(0, IF how = "ok" THEN << Line("ok", "Remote repository", {}) >>
                      ELSE << Line("error", "Cannot reach repository. Check credentials and network.", {}) >>)
    /\ UNCHANGED << cmd, opts, now, targetTime, inherited, envPass, secretStore, configured, configFile, keychain, passFile, saved, passphrase,
                    snapshots, selected, output, result, http, net, probe >>

NextCmd ==
    \/ LoadConfig
    \/ ResolvePassphrase
    \/ StatusResolve
    \/ DoctorResolve
    \/ BackupRun
    \/ BackupAwait
    \/ BackupForget
    \/ BackupForgetAwait
    \/ RestoreList
    \/ RestoreListed
    \/ RestoreConfirm
    \/ RestoreRun
    \/ RestoreAwait
    \/ ForgetCommand
    \/ ForgetAwait
    \/ SnapshotsCommand
    \/ SnapshotsAwait
    \/ StatusRemote
    \/ StatusAwait
    \/ DoctorChecks
    \/ DoctorAwait

SpecCmd == InitCmd /\ [][NextCmd]_vars

----------------------------------------------------------------------------
(* Claims about the commands *)

\* The documented chain: the override if supplied, else the environment
\* variable if set, else the secret-store value.  An empty string counts as
\* not supplied / not set.
Chain(o, e, k) == IF Truthy(o) THEN o ELSE IF Truthy(e) THEN e ELSE k

ResolvingCommands == { "backup", "restore", "forget", "snapshots" }

\* C1: in backup, restore, forget and snapshots, for every combination of
\* override, environment variable and secret-store value, every engine
\* invocation carries as its passphrase the override if one is supplied,
\* otherwise the environment variable if set, otherwise the secret-store
\* value.
C1_PassphrasePrecedence ==
    cmd \in ResolvingCommands =>
        \A i \in DOMAIN engine :
            engine[i].env.RESTIC_PASSWORD = Chain(opts.passphrase, envPass, secretStore)

\* C1 witness: the override is absent, the environment variable and the secret
\* store hold conflicting values, and the engine was handed the environment
\* variable.
C1_Witness ==
    /\ cmd = "backup"
    /\ ~Truthy(opts.passphrase) /\ envPass = "env-pass" /\ secretStore = "keychain-pass"
    /\ Len(engine) > 0
    /\ engine[1].env.RESTIC_PASSWORD = "env-pass"

\* An engine restore that writes into its target: a restore invocation
\* without the engine's --dry-run flag
WritingRestore(inv) ==
    /\ \E j \in DOMAIN inv.args : inv.args[j] = "restore"
    /\ \A j \in DOMAIN inv.args : inv.args[j] # "--dry-run"

\* C3: with --dry-run, restoreCommand runs no engine restore that writes
\* files into the target directory.
C3_DryRunWritesNothing ==
    (cmd = "restore" /\ opts.dryRun) =>
        \A i \in DOMAIN engine : ~WritingRestore(engine[i])

\* C5: without --at, the snapshot restoreCommand passes to restore is the one
\* with the greatest timestamp of the (non-empty) list the engine returned.
C5_RestoresGreatestTimestamp ==
    ( /\ cmd = "restore" /\ opts.at.kind = "none" /\ selected # 0
      /\ \A j \in DOMAIN snapshots : snapshots[j].time.valid )
    => \A j \in DOMAIN snapshots :
           snapshots[j].time.sec <= snapshots[selected].time.sec

\* The engine invocations of a command whose first argument after the
\* extra args is `name`
Invocations(name) == { i \in DOMAIN engine : engine[i].args[3] = name }

Levels == { logs[i].level : i \in DOMAIN logs }

\* C12: when the backup succeeded and the forget that follows it fails
\* (nonzero exit or timeout), backupCommand still completes as a success: it
\* does not exit with code 1, and the retention failure is reported as a
\* warning, not as an error.
C12_ForgetFailureNonFatal ==
    ( /\ cmd = "backup" /\ pc = "done"
      /\ \E i \in Invocations("backup") : engine[i].ok
      /\ result.kind = "return"
      /\ \E i \in Invocations("forget") : engine[i].how \in Failures )
    => /\ exitCode = 0
       /\ "warn" \in Levels
       /\ "error" \notin Levels

\* C12 witness: the backup returned its summary, the forget process was
\* killed by the timeout, and the command ended with code 0
C12_Witness ==
    /\ cmd = "backup" /\ pc = "done"
    /\ Len(engine) = 2
    /\ engine[1].ok /\ result.kind = "return"
    /\ engine[2].args[3] = "forget" /\ engine[2].how = "timeout"
    /\ exitCode = 0

\* C13: backupCommand invokes forget exactly when the backup invocation
\* returned a summary, --dry-run is not set and --no-forget was not given;
\* forget is never invoked before the backup, after a failed backup, on a dry
\* run, or when forget is disabled.
C13_ForgetExactlyAfterGoodBackup ==
    cmd = "backup" =>
        /\ Cardinality(Invocations("forget")) <= 1
        /\ \A i \in Invocations("forget") :
             /\ \E j \in 1..(i - 1) : engine[j].args[3] = "backup" /\ engine[j].ok
             /\ result.kind = "return"
             /\ ~opts.dryRun
             /\ opts.forget
        /\ pc = "done" =>
             ( Invocations("forget") # {}
                 <=> (result.kind = "return" /\ ~opts.dryRun /\ opts.forget) )

\* C13 witness: a backup that returned its summary, neither --dry-run nor
\* --no-forget, and the forget invocation made after it
C13_Witness ==
    /\ cmd = "backup" /\ pc = "done"
    /\ ~opts.dryRun /\ opts.forget
    /\ Len(engine) = 2
    /\ engine[1].args[3] = "backup" /\ engine[1].ok /\ result.kind = "return"
    /\ engine[2].args[3] = "forget"

\* The unknown-category error was logged with the list of the valid names
UnknownCategoryLogged(only, valid) ==
    \E i \in DOMAIN logs :
        /\ logs[i] = Line("error", "Unknown category: " \o only, {})
        /\ i + 1 \in DOMAIN logs
        /\ logs[i + 1].text = "Valid categories"
        /\ logs[i + 1].names = valid

\* The command ended in getCategoryIncludes: of the ways backup and restore
\* fail, only this one logs two lines
CategoryChecked == pc = "done" /\ exitCode = 1 /\ Len(logs) = 2

\* C14: every category that backup --only accepts (config, secrets,
\* workspace, sessions, memory, skills, agents, settings) is also accepted
\* by restore --only and yields a non-empty set of include patterns there; a
\* name outside the valid set is rejected with an unknown-category error
\* that lists the valid names, and no backup or restore engine invocation
\* is made for it.
C14_SameCategoriesBothWays ==
    (cmd \in { "backup", "restore" } /\ Truthy(opts.only)) =>
        IF opts.only \in BackupCategories
        THEN /\ \A i \in DOMAIN logs : logs[i].text # "Unknown category: " \o opts.only
             /\ \A i \in Invocations("restore") :
                  \E j \in DOMAIN engine[i].args : engine[i].args[j] = "--include"
        ELSE /\ Invocations("backup") = {} /\ Invocations("restore") = {}
             /\ CategoryChecked => UnknownCategoryLogged(opts.only, BackupCategories)

NamedRemedies == UNION { logs[i].names : i \in DOMAIN logs }

NoPassphraseAnywhere ==
    ~Truthy(opts.passphrase) /\ ~Truthy(envPass) /\ ~Truthy(secretStore)

\* C9: when no passphrase can be resolved, backup, restore, forget and
\* snapshots end with a failure whose message names all three remediation
\* paths (setup/keychain, environment variable, --passphrase flag).
C9_AllThreeRemediesNamed ==
    ( /\ cmd \in ResolvingCommands /\ configured /\ NoPassphraseAnywhere
      /\ pc = "done" )
    => /\ exitCode = 1
       /\ NamedRemedies = { "setup", "env", "flag" }

\* A value that is no passphrase (undefined, null or empty) reads as absent
Norm(v) == IF Truthy(v) THEN v ELSE Undefined

\* C10: backup, restore, forget, snapshots, status and doctor all take the
\* passphrase from the same chain (override, environment variable, secret
\* store): once a command has resolved its passphrase, it is the value that
\* chain gives for these contents.
C10_SameChainEverywhere ==
    (pc \notin { "start", "resolve" } /\ (configured \/ cmd = "doctor")) =>
        Norm(passphrase) = Norm(Chain(opts.passphrase, envPass, secretStore))

----------------------------------------------------------------------------
(* restoreCommand with --at *)

InitRestoreAt ==
    /\ cmd = "restore"
    /\ opts \in { [DefaultOpts EXCEPT !.passphrase = "flag-pass", !.at = a, !.target = "/tmp/restore"] :
                    a \in AtValues \ { NoAt } }
    /\ now \in Nows
    /\ envPass = Undefined
    /\ secretStore = Undefined
    /\ configured = TRUE
    /\ configFile = Saved(config)
    /\ keychain = Undefined
    /\ passFile = Undefined
    /\ saved = "none"
    /\ pc = "start"
    /\ Idle

NextRestoreAt ==
    \/ LoadConfig
    \/ ResolvePassphrase
    \/ RestoreList
    \/ RestoreListed
    \/ RestoreConfirm
    \/ RestoreRun
    \/ RestoreAwait

SpecRestoreAt == InitRestoreAt /\ [][NextRestoreAt]_vars

\* The unit a word names: one of minute, hour, day, week, month, with an
\* optional plural s, in any letter case
NamedUnit(w) ==
    LET units == { u \in { "minute", "hour", "day", "week", "month" } :
                     ToLowerCase(w) \in { u, u \o "s" } }
    IN IF units = {} THEN Undefined ELSE CHOOSE u \in units : TRUE

\* The length of each unit in seconds, the month being 30 days
UnitSeconds(u) ==
    CASE u = "minute" -> 60 [] u = "hour" -> 60 * 60 [] u = "day" -> 24 * 60 * 60
      [] u = "week" -> 7 * 24 * 60 * 60 [] u = "month" -> 30 * 24 * 60 * 60

\* The expression has the form `<n> <unit> ago`
IsRelative(at) ==
    /\ at.kind = "words" /\ Len(at.words) = 3
    /\ at.words[1] \in { "1", "12" }
    /\ NamedUnit(at.words[2]) # Undefined
    /\ at.words[3] \in { "ago", "AGO" }

Amount(at) == IF at.words[1] = "1" THEN 1 ELSE 12

----------------------------------------------------------------------------
(* restic.ts backup() called on its own *)

InitBackup ==
    /\ cmd = "backup()"
    /\ opts = DefaultOpts
    /\ now = Now
    /\ targetTime = NoTarget
    /\ inherited = NoInherited
    /\ envPass = Undefined
    /\ secretStore = Undefined
    /\ configured = TRUE
    /\ configFile = Saved(config)
    /\ keychain = Undefined
    /\ passFile = Undefined
    /\ saved = "none"
    /\ pc = "exec"
    /\ passphrase = "flag-pass"
    /\ logs = << >>
    /\ exitCode = -1
    /\ engine = << >>
    /\ snapshots = << >>
    /\ selected = 0
    /\ output \in SeqsUpTo(LineTexts, MaxLines)
    /\ result = NoResult
    /\ http = << >>
    /\ net = << >>
    /\ probe = 0

\* backup() line 210: runResticRaw starts the engine
BackupExec ==
    /\ pc = "exec"
    /\ Spawn(backupArgs(config.openclawDir, << "clawstash" >>, config.exclude, NoIncludes, FALSE))
    /\ pc' = "wait"
    /\ UNCHANGED << cmd, opts, now, targetTime, inherited, envPass, secretStore, configured, configFile, keychain, passFile, saved, passphrase, logs,
                    exitCode, snapshots, selected, output, result, http, net, probe >>

\* backup() line 210: the await; a nonzero exit, the timeout or an output
\* over maxBuffer rejects
BackupExit ==
    /\ pc = "wait"
    /\ \E how \in Outcomes :
         /\ Await(how)
         /\ IF how = "ok"
            THEN pc' = "scan" /\ UNCHANGED result
            ELSE pc' = "done" /\ result' = ExecError(how)
    /\ UNCHANGED << cmd, opts, now, targetTime, inherited, envPass, secretStore, configured, configFile, keychain, passFile, saved, passphrase, logs,
                    exitCode, snapshots, selected, output, http, net, probe >>

\* backup() lines 212-225: the scan of the output for the summary
BackupScan ==
    /\ pc = "scan"
    /\ result' = backupParse(output)
    /\ pc' = "done"
    /\ UNCHANGED << cmd, opts, now, targetTime, inherited, envPass, secretStore, configured, configFile, keychain, passFile, saved, passphrase, logs,
                    exitCode, engine, snapshots, selected, output, http, net, probe >>

NextBackup == BackupExec \/ BackupExit \/ BackupScan

SpecBackup == InitBackup /\ [][NextBackup]_vars

\* A line that parses as JSON and whose message_type is "summary"
Qualifies(text) ==
    LET parsed == JSONparse(text) IN parsed.ok /\ parsed.message_type = "summary"

Qualifying == { i \in DOMAIN output : Qualifies(output[i]) }

Last(S) == CHOOSE i \in S : \A j \in S : j <= i

\* C2: after a successful engine run, backup returns the record of the last
\* output line that parses as JSON with message_type "summary", whatever
\* progress records, unparseable lines and further summaries the output
\* holds; when no line qualifies it fails with the no-summary error.
C2_LastSummaryOrError ==
    (pc = "done" /\ engine[1].ok) =>
        IF Qualifying = {}
        THEN result = Throw("No backup summary found in restic output")
        ELSE result = Return(JSONparse(output[Last(Qualifying)]).snapshot_id)

\* C2 witness: two different summaries with other lines around them, and
\* the later one returned
C2_Witness ==
    /\ pc = "done"
    /\ output = << SummaryA, SummaryB, "repository opened" >>
    /\ result = Return("bbbbbbbb")

----------------------------------------------------------------------------
(* restore.ts findSnapshotByTime called on its own *)

InitFind ==
    /\ cmd = "findSnapshotByTime"
    /\ opts \in { [DefaultOpts EXCEPT !.at = a] : a \in AtValues \ { NoAt } }
    /\ now \in Nows
    /\ targetTime = NoTarget
    /\ inherited = NoInherited
    /\ envPass = Undefined
    /\ secretStore = Undefined
    /\ configured = TRUE
    /\ configFile = Saved(config)
    /\ keychain = Undefined
    /\ passFile = Undefined
    /\ saved = "none"
    /\ pc = "call"
    /\ passphrase = Undefined
    /\ logs = << >>
    /\ exitCode = -1
    /\ engine = << >>
    /\ snapshots \in { SnapshotList(ts) : ts \in SeqsUpTo(TimeValues, MaxSnaps) }
    /\ selected = 0
    /\ output = << >>
    /\ result = NoResult
    /\ http = << >>
    /\ net = << >>
    /\ probe = 0

\* findSnapshotByTime(snapshots, opts.at)
FindSnapshot ==
    /\ pc = "call"
    /\ \E legacy \in LegacyParses :
         LET found == findSnapshotByTime(snapshots, opts.at, now, legacy) IN
         /\ targetTime' = Target(found.targetTime)
         /\ IF found.exit
            THEN /\ Finish(1, << Line("error", "Cannot parse time", {}) >>)
                 /\ UNCHANGED << selected, result >>
            ELSE /\ pc' = "done"
                 /\ selected' = found.best
                 /\ result' = Return(IF found.best = 0 THEN "null" ELSE snapshots[found.best].id)
                 /\ UNCHANGED << exitCode, logs >>
    /\ UNCHANGED << cmd, opts, now, inherited, envPass, secretStore, configured, configFile, keychain, passFile, saved, passphrase,
                    engine, snapshots, output, http, net, probe >>

NextFind == FindSnapshot

SpecFind == InitFind /\ [][NextFind]_vars

\* |timestamp - target| of the snapshot at position j
Distance(j) == Abs(snapshots[j].time.sec - targetTime.time.sec)

AllTimesValid == \A j \in DOMAIN snapshots : snapshots[j].time.valid

C30_FoundUnlessEmpty ==
    (cmd = "findSnapshotByTime" /\ pc = "done" /\ exitCode = -1 /\ Len(snapshots) > 0) =>
        /\ selected \in DOMAIN snapshots
        /\ result = Return(snapshots[selected].id)

----------------------------------------------------------------------------
(* s3.ts: bucketExists, createBucket, ensureBucket, detectR2Jurisdiction *)

\* What a fetch() call ends with: an HTTP response, or a rejection (network
\* or TLS failure, or the AbortSignal timeout)
OwnedBody == "<Error><Code>BucketAlreadyOwnedByYou</Code></Error>"
DeniedBody == "<Error><Code>AccessDenied</Code></Error>"
Statuses == { 200, 201, 204, 301, 400, 403, 404, 409, 500, 503 }
Bodies == { "", OwnedBody, DeniedBody }
Response(status, body) == [kind |-> "response", status |-> status, body |-> body]
Rejected == [kind |-> "rejected", status |-> 0, body |-> ""]
Answers == { Response(st, b) : st \in Statuses, b \in Bodies } \cup { Rejected }

\* body.includes("BucketAlreadyOwnedByYou")
HasOwnedMarker(body) == body = OwnedBody

\* The rejection of a fetch whose AbortSignal.timeout fired
TimedOut == [kind |-> "rejected", status |-> 0, body |-> "TimeoutError"]

\* A request as signRequest signs it and fetch issues it: the region of the
\* credential scope, and the signal option of the fetch call (Undefined
\* when the call passes none)
Request(method, endpoint, path, region, signal) ==
    [ method |-> method, endpoint |-> endpoint, path |-> path,
      region |-> region, signal |-> signal ]

\* bucketExists lines 97-111 and createBucket lines 125-138
BucketRequest(method, storage) ==
    Request(method, getStorageEndpoint(storage).value, "/" \o storage.bucket,
            Nullish(storage.region, "auto"), Undefined)

\* detectR2Jurisdiction lines 209-211: the endpoint of a candidate
R2Endpoint(account, jur) ==
    IF jur # "" THEN "https://" \o account \o "." \o jur \o ".r2.cloudflarestorage.com"
    ELSE "https://" \o account \o ".r2.cloudflarestorage.com"

\* detectR2Jurisdiction lines 214-228
ProbeRequest(account, jur) ==
    Request("GET", R2Endpoint(account, jur), "/", "auto", "AbortSignal.timeout(8000)")

\* Any HTTP answer counts as existing (as testEndpoint does)
bucketExistsAnyAnswer(answer) == answer.kind = "response"

\* bucketExists lines 110-117: true only for status 200, false on rejection
bucketExists(answer) == answer.kind = "response" /\ answer.status = 200

\* The marker is honoured on 4xx answers only
createBucket4xxOnly(answer) ==
    IF answer.kind = "rejected" THEN Throw("fetch failed")
    ELSE IF answer.status = 200 \/ answer.status = 201 THEN Return("Created")
    ELSE IF answer.status = 409 THEN Return("AlreadyOwned")
    ELSE IF answer.status >= 400 /\ answer.status < 500 /\ HasOwnedMarker(answer.body)
         THEN Return("AlreadyOwned")
    ELSE [kind |-> "throw", value |-> "Failed to create bucket",
          status |-> answer.status, body |-> answer.body]

\* createBucket lines 138-162: true (Created), false (AlreadyOwned), or an
\* error with the status and the body; a rejected fetch propagates
createBucket(answer) ==
    IF answer.kind = "rejected" THEN Throw("fetch failed")
    ELSE IF answer.status = 200 \/ answer.status = 201 THEN Return("Created")
    ELSE IF answer.status = 409 THEN Return("AlreadyOwned")
    ELSE IF HasOwnedMarker(answer.body) THEN Return("AlreadyOwned")
    ELSE [kind |-> "throw", value |-> "Failed to create bucket",
          status |-> answer.status, body |-> answer.body]

\* The candidates probed in the other order
jurisdictionsEuFirst == << "eu", "" >>

\* detectR2Jurisdiction line 205
jurisdictions == << "", "eu" >>

S3Functions == { "bucketExists", "createBucket", "ensureBucket", "detectR2Jurisdiction" }

InitS3 ==
    /\ cmd \in S3Functions
    /\ opts = [storage |-> config.storage]
    /\ now = Now
    /\ targetTime = NoTarget
    /\ inherited = NoInherited
    /\ envPass = Undefined
    /\ secretStore = Undefined
    /\ configured = TRUE
    /\ configFile = Saved(config)
    /\ keychain = Undefined
    /\ passFile = Undefined
    /\ saved = "none"
    /\ pc = CASE cmd = "createBucket" -> "put"
              [] cmd = "detectR2Jurisdiction" -> "probe"
              [] OTHER -> "head"
    /\ passphrase = Undefined
    /\ logs = << >>
    /\ exitCode = -1
    /\ engine = << >>
    /\ snapshots = << >>
    /\ selected = 0
    /\ output = << >>
    /\ result = NoResult
    /\ http = << >>
    /\ net = << >>
    /\ probe = 1

\* The fetch calls of the function that have been issued and not settled
Pending == pc \in { "head-wait", "put-wait", "probe-wait" }

\* Lines 97-111 and 125-138: getStorageEndpoint(storage) may throw, and then
\* nothing is sent; otherwise the signed request is issued with fetch
IssueBucketRequest(method, storage, wait) ==
    IF getStorageEndpoint(storage).kind = "throw"
    THEN result' = getStorageEndpoint(storage) /\ pc' = "done" /\ UNCHANGED http
    ELSE /\ http' = Append(http, BucketRequest(method, storage))
         /\ pc' = wait
         /\ UNCHANGED result

\* bucketExists(storage) lines 97-111: the signed HEAD /{bucket} is issued
HeadBucket ==
    /\ pc = "head"
    /\ IssueBucketRequest("HEAD", opts.storage, "head-wait")
    /\ UNCHANGED << cmd, opts, now, targetTime, inherited, envPass, secretStore, configured, configFile, keychain, passFile, saved, passphrase, logs,
                    exitCode, engine, snapshots, selected, output, net, probe >>

\* bucketExists lines 111-117 once the fetch has settled; in ensureBucket,
\* lines 169-173
HeadSettled(answer) ==
    /\ pc = "head-wait"
    /\ net' = Append(net, answer)
    /\ IF cmd = "bucketExists"
       THEN /\ result' = Return(IF bucketExists(answer) THEN "true" ELSE "false")
            /\ pc' = "done"
       ELSE IF bucketExists(answer)
       THEN result' = Return("undefined") /\ pc' = "done"
       ELSE UNCHANGED result /\ pc' = "put"
    /\ UNCHANGED << cmd, opts, now, targetTime, inherited, envPass, secretStore, configured, configFile, keychain, passFile, saved, passphrase, logs,
                    exitCode, engine, snapshots, selected, output, http, probe >>

\* The endpoint answers the HEAD, or the connection fails
HeadAnswer == \E answer \in Answers : HeadSettled(answer)

\* createBucket(storage) lines 125-138: the signed PUT /{bucket} is issued
PutBucket ==
    /\ pc = "put"
    /\ IssueBucketRequest("PUT", opts.storage, "put-wait")
    /\ UNCHANGED << cmd, opts, now, targetTime, inherited, envPass, secretStore, configured, configFile, keychain, passFile, saved, passphrase, logs,
                    exitCode, engine, snapshots, selected, output, net, probe >>

\* createBucket lines 138-162 once the fetch has settled; in ensureBucket,
\* line 175, where the returned boolean is dropped and an error propagates
PutSettled(answer) ==
    /\ pc = "put-wait"
    /\ net' = Append(net, answer)
    /\ result' = IF cmd = "ensureBucket" /\ createBucket(answer).kind = "return"
                 THEN Return("undefined")
                 ELSE createBucket(answer)
    /\ pc' = "done"
    /\ UNCHANGED << cmd, opts, now, targetTime, inherited, envPass, secretStore, configured, configFile, keychain, passFile, saved, passphrase, logs,
                    exitCode, engine, snapshots, selected, output, http, probe >>

\* The endpoint answers the PUT, or the connection fails
PutAnswer == \E answer \in Answers : PutSettled(answer)

\* detectR2Jurisdiction lines 207-228: one pass of the for loop issues the
\* signed GET / of the candidate
ProbeJurisdiction ==
    /\ pc = "probe"
    /\ probe <= Len(jurisdictions)
    /\ http' = Append(http, ProbeRequest(opts.storage.accountId, jurisdictions[probe]))
    /\ pc' = "probe-wait"
    /\ UNCHANGED << cmd, opts, now, targetTime, inherited, envPass, secretStore, configured, configFile, keychain, passFile, saved, passphrase, logs,
                    exitCode, engine, snapshots, selected, output, result, net, probe >>

\* detectR2Jurisdiction lines 230-238 once the fetch has settled
ProbeSettled(answer) ==
    /\ pc = "probe-wait"
    /\ net' = Append(net, answer)
    /\ IF answer.kind = "response" /\ answer.status = 200
       THEN result' = Return(jurisdictions[probe]) /\ pc' = "done" /\ UNCHANGED probe
       ELSE UNCHANGED result /\ pc' = "probe" /\ probe' = probe + 1
    /\ UNCHANGED << cmd, opts, now, targetTime, inherited, envPass, secretStore, configured, configFile, keychain, passFile, saved, passphrase, logs,
                    exitCode, engine, snapshots, selected, output, http >>

\* The endpoint answers the GET, or the connection fails
ProbeAnswer == \E answer \in Answers : ProbeSettled(answer)

\* The timer of AbortSignal.timeout fires: the pending fetch of a call that
\* passed a signal is rejected with a TimeoutError
FetchTimeout ==
    /\ Pending
    /\ Truthy(http[Len(http)].signal)
    /\ \/ HeadSettled(TimedOut)
       \/ PutSettled(TimedOut)
       \/ ProbeSettled(TimedOut)

\* detectR2Jurisdiction line 242: the fallback after the loop
ProbeFallback ==
    /\ pc = "probe"
    /\ probe > Len(jurisdictions)
    /\ result' = Return("")
    /\ pc' = "done"
    /\ UNCHANGED << cmd, opts, now, targetTime, inherited, envPass, secretStore, configured, configFile, keychain, passFile, saved, passphrase, logs,
                    exitCode, engine, snapshots, selected, output, http, net, probe >>

NextS3 ==
    \/ HeadBucket \/ HeadAnswer
    \/ PutBucket \/ PutAnswer
    \/ ProbeJurisdiction \/ ProbeAnswer
    \/ FetchTimeout
    \/ ProbeFallback

SpecS3 == InitS3 /\ [][NextS3]_vars

Is200(answer) == answer.kind = "response" /\ answer.status = 200

\* C6 as claimed: Created for 200 or 201; AlreadyOwned for 409 or for a 4xx
\* answer whose body holds the marker; for every other status an error that
\* carries the status code and the body.
C6_MarkerOn4xxOnly ==
    (cmd = "createBucket" /\ pc = "done" /\ net[1].kind = "response") =>
        LET st == net[1].status
            marked == HasOwnedMarker(net[1].body)
        IN IF st \in { 200, 201 } THEN result = Return("Created")
           ELSE IF st = 409 \/ (st >= 400 /\ st < 500 /\ marked)
           THEN result = Return("AlreadyOwned")
           ELSE result.kind = "throw" /\ result.status = st /\ result.body = net[1].body

\* C6 amended: Created for 200 or 201; AlreadyOwned for 409 or for any other
\* answer (of whatever status) whose body holds the marker; every remaining
\* answer fails with an error that carries the status code and the body.
C6_MarkerOnAnyStatus ==
    (cmd = "createBucket" /\ pc = "done" /\ net[1].kind = "response") =>
        LET st == net[1].status
            marked == HasOwnedMarker(net[1].body)
        IN IF st \in { 200, 201 } THEN result = Return("Created")
           ELSE IF st = 409 \/ marked
           THEN result = Return("AlreadyOwned")
           ELSE result.kind = "throw" /\ result.status = st /\ result.body = net[1].body

\* C6 witness: a 500 answer with the marker classified AlreadyOwned
C6_Witness ==
    /\ cmd = "createBucket" /\ pc = "done"
    /\ net[1] = Response(500, OwnedBody)
    /\ result = Return("AlreadyOwned")

\* C7: ensureBucket issues the HEAD first and the PUT if and only if the
\* HEAD did not answer 200 (another status, or a rejected fetch); it
\* succeeds when the HEAD answers 200 or the PUT is classified Created or
\* AlreadyOwned, and fails otherwise.
C7_HeadThenPutIffNot200 ==
    cmd = "ensureBucket" =>
        /\ Len(http) <= 2
        /\ Len(http) >= 1 => http[1].method = "HEAD"
        /\ Len(http) = 2 => http[2].method = "PUT" /\ ~Is200(net[1])
        /\ pc = "done" =>
             /\ Len(http) = 2 <=> ~Is200(net[1])
             /\ result.kind = "return" <=>
                  \/ Is200(net[1])
                  \/ Len(net) = 2 /\ createBucket(net[2]).kind = "return"

\* C7 witness: the HEAD fetch was rejected, the PUT was issued and answered
\* 409, and ensureBucket succeeded
C7_Witness ==
    /\ cmd = "ensureBucket" /\ pc = "done"
    /\ net = << Rejected, Response(409, "") >>
    /\ http[2].method = "PUT"
    /\ result.kind = "return"

\* C8: detectR2Jurisdiction probes default ("") then "eu", one at a time,
\* returns the first candidate answering 200 without probing a later one,
\* and returns "" when no candidate answers 200.
C8_SequentialShortCircuit ==
    cmd = "detectR2Jurisdiction" =>
        /\ Len(http) <= 2
        /\ Len(http) >= 1 =>
             /\ http[1].method = "GET" /\ http[1].path = "/"
             /\ http[1].endpoint = "https://abc.r2.cloudflarestorage.com"
        /\ Len(http) = 2 =>
             /\ http[2].method = "GET" /\ http[2].path = "/"
             /\ http[2].endpoint = "https://abc.eu.r2.cloudflarestorage.com"
        /\ \A i \in 1..(Len(http) - 1) : Len(net) >= i /\ ~Is200(net[i])
        /\ pc = "done" =>
             result = Return(IF Is200(net[1]) THEN ""
                             ELSE IF Len(net) = 2 /\ Is200(net[2]) THEN "eu"
                             ELSE "")

\* C8 witness: the default endpoint answered 403, the eu endpoint 200, and
\* "eu" was returned
C8_Witness ==
    /\ cmd = "detectR2Jurisdiction" /\ pc = "done"
    /\ Len(net) = 2 /\ net[1].status = 403 /\ Is200(net[2])
    /\ result = Return("eu")

\* C21: every provisioning HTTP request (bucket HEAD, bucket PUT,
\* jurisdiction GET) is bounded by its own short timeout, so bucketExists,
\* createBucket, ensureBucket and detectR2Jurisdiction each return or fail
\* even when the endpoint never responds: a fetch that is pending was issued
\* with an AbortSignal timeout, whose timer settles it.
C21_PendingFetchHasTimeout ==
    Pending => Truthy(http[Len(http)].signal)

----------------------------------------------------------------------------
(* restic.ts: the orchestrator operations, each called on its own *)

\* JSON.parse(stdout) of runRestic: the whole output parses when it holds
\* one JSON text, blank lines around it aside
NonBlank(out) == SelectSeq(out, LAMBDA l : l # "")
ParsesWhole(out) == Len(NonBlank(out)) = 1 /\ JSONparse(NonBlank(out)[1]).ok

\* restic.ts runRestic lines 114-119: the parsed value, or stdout itself
\* when it is not JSON
runRestic(out) ==
    IF ParsesWhole(out)
    THEN [type |-> JSONparse(NonBlank(out)[1]).type,
          length |-> ArrayLength(NonBlank(out)[1]), stdout |-> out]
    ELSE [type |-> "string", length |-> 0, stdout |-> out]

\* restic.ts listSnapshots line 244: result ?? []
listSnapshots(out) ==
    IF runRestic(out).type = "null"
    THEN Return([type |-> "array", length |-> 0, stdout |-> out])
    ELSE Return(runRestic(out))

\* restic.ts stats line 302
stats(out) == Return(runRestic(out))

\* The probes let the rejection through
booleanProbeRethrows(how) == IF how = "ok" THEN Return("true") ELSE ExecError(how)

\* restic.ts checkRepo and check: try { await ...; return true } catch { return false }
booleanProbe(how) == IF how = "ok" THEN Return("true") ELSE Return("false")

Operations ==
    { "initRepo()", "checkRepo()", "backup()", "restore()", "forget()",
      "listSnapshots()", "stats()", "check()" }

\* The retention numbers a caller passes
KeepValues == { 0, 1, 7, 30 }
KeepFields == { "keepLast", "keepDaily", "keepWeekly", "keepMonthly" }
Retentions == UNION { [D -> KeepValues] : D \in SUBSET KeepFields }

\* The arguments of a call of each operation
OpInputs(op) ==
    CASE op = "forget()" -> { [retention |-> r] : r \in Retentions }
      [] op = "restore()" ->
           { [snapshotId |-> "1", targetDir |-> "/tmp/restore", include |-> i, exclude |-> e] :
               i \in { NoIncludes, Includes(<< "**/workspace/**" >>) },
               e \in { NoIncludes, Includes(<< "*.log" >>) } }
      [] op = "backup()" ->
           { [sourceDir |-> config.openclawDir, tags |-> t, excludes |-> e, includes |-> i,
              dryRun |-> d] :
               t \in { << >>, << "clawstash" >> }, e \in { << >>, << "*.lock", "*-wal" >> },
               i \in { NoIncludes, Includes(<< "memory/**" >>) }, d \in BOOLEAN }
      [] op = "listSnapshots()" ->
           { [tags |-> t] : t \in { NoIncludes, Includes(<< "clawstash" >>) } }
      [] OTHER -> { DefaultOpts }

\* The argument vector each operation hands to runRestic / runResticRaw
OpArgs(op, o) ==
    CASE op = "initRepo()" -> initRepoArgs
      [] op = "checkRepo()" -> checkRepoArgs
      [] op = "backup()" -> backupArgs(o.sourceDir, o.tags, o.excludes, o.includes, o.dryRun)
      [] op = "restore()" -> restoreArgs(o.snapshotId, o.targetDir, o.include, o.exclude)
      [] op = "forget()" -> forgetArgs(o.retention)
      [] op = "listSnapshots()" -> listSnapshotsArgs(o.tags)
      [] op = "stats()" -> statsArgs
      [] op = "check()" -> checkArgs

\* What the engine prints for the operations that read stdout
Stdouts ==
    { << >>, << "null" >>, << "[]" >>, << SnapshotsText >>, << StatsText >>,
      << "", "null" >>, << "repository opened" >>, << "repository opened", "[]" >> }

\* What each operation returns or throws once its engine process has ended
OpResult(op, how, out) ==
    CASE op \in { "checkRepo()", "check()" } -> booleanProbe(how)
      [] how # "ok" -> ExecError(how)
      [] op = "backup()" -> backupParse(out)
      [] op = "listSnapshots()" -> listSnapshots(out)
      [] op = "stats()" -> stats(out)
      [] OTHER -> Return("undefined")

InitOps ==
    /\ cmd \in Operations
    /\ opts \in OpInputs(cmd)
    /\ now = Now
    /\ targetTime = NoTarget
    /\ inherited \in InheritedEnvs
    /\ envPass = Undefined
    /\ secretStore = Undefined
    /\ configured = TRUE
    /\ configFile = Saved(config)
    /\ keychain = Undefined
    /\ passFile = Undefined
    /\ saved = "none"
    /\ pc = "call"
    /\ passphrase = "flag-pass"
    /\ logs = << >>
    /\ exitCode = -1
    /\ engine = << >>
    /\ snapshots = << >>
    /\ selected = 0
    /\ output = << >>
    /\ result = NoResult
    /\ http = << >>
    /\ net = << >>
    /\ probe = 0

\* The operation builds its arguments and starts the engine
OpStart ==
    /\ pc = "call"
    /\ Spawn(OpArgs(cmd, opts))
    /\ pc' = "wait"
    /\ UNCHANGED << cmd, opts, now, targetTime, inherited, envPass, secretStore, configured, configFile, keychain, passFile, saved, passphrase, logs,
                    exitCode, snapshots, selected, output, result, http, net, probe >>

\* The engine process ends and the operation returns or throws
OpExit ==
    /\ pc = "wait"
    /\ \E how \in Outcomes, out \in (IF cmd = "backup()" THEN CmdOutputs ELSE Stdouts) :
         /\ Await(how)
         /\ output' = IF how = "ok" THEN out ELSE << >>
         /\ result' = OpResult(cmd, how, out)
         /\ pc' = "done"
    /\ UNCHANGED << cmd, opts, now, targetTime, inherited, envPass, secretStore, configured, configFile, keychain, passFile, saved, passphrase, logs,
                    exitCode, snapshots, selected, http, net, probe >>

NextOps == OpStart \/ OpExit

SpecOps == InitOps /\ [][NextOps]_vars

\* The arguments after the extra args and `forget --prune --json`
KeepArgs == SubSeq(engine[1].args, 6, Len(engine[1].args))

FlagOf(field) ==
    CASE field = "keepLast" -> "--keep-last"
      [] field = "keepDaily" -> "--keep-daily"
      [] field = "keepWeekly" -> "--keep-weekly"
      [] field = "keepMonthly" -> "--keep-monthly"

\* The decimal text of the retention numbers of the model
Decimal(n) == CASE n = 0 -> "0" [] n = 1 -> "1" [] n = 7 -> "7" [] n = 30 -> "30"

\* The position of the flag in KeepArgs, 0 when it is not there
FlagAt(field) ==
    IF \E j \in DOMAIN KeepArgs : KeepArgs[j] = FlagOf(field)
    THEN CHOOSE j \in DOMAIN KeepArgs : KeepArgs[j] = FlagOf(field)
    ELSE 0

NonZero(field) == field \in DOMAIN opts.retention /\ opts.retention[field] # 0

KeepOrder == << "keepLast", "keepDaily", "keepWeekly", "keepMonthly" >>

\* C11: forget builds exactly `forget --prune --json` followed, in the order
\* keep-last, keep-daily, keep-weekly, keep-monthly, by one `--keep-X N`
\* pair for each retention field that is non-zero and by nothing for a field
\* that is zero or absent.
C11_ForgetArgs ==
    (cmd = "forget()" /\ Len(engine) = 1) =>
        /\ SubSeq(engine[1].args, 1, 5)
             = << "-o", "s3.bucket-lookup=path", "forget", "--prune", "--json" >>
        /\ Len(KeepArgs) = 2 * Cardinality({ f \in KeepFields : NonZero(f) })
        /\ \A f \in KeepFields :
             IF NonZero(f)
             THEN /\ FlagAt(f) # 0
                  /\ KeepArgs[FlagAt(f) + 1] = Decimal(opts.retention[f])
             ELSE FlagAt(f) = 0
        /\ \A a \in 1..4, b \in 1..4 :
             (a < b /\ NonZero(KeepOrder[a]) /\ NonZero(KeepOrder[b]))
                 => FlagAt(KeepOrder[a]) < FlagAt(KeepOrder[b])

\* C11 witness: the retention {keepLast: 7, keepDaily: 30} with keepWeekly
\* zero and keepMonthly absent
C11_Witness ==
    /\ cmd = "forget()" /\ Len(engine) = 1
    /\ DOMAIN opts.retention = { "keepLast", "keepDaily", "keepWeekly" }
    /\ opts.retention.keepLast = 7 /\ opts.retention.keepDaily = 30
    /\ opts.retention.keepWeekly = 0
    /\ KeepArgs = << "--keep-last", "7", "--keep-daily", "30" >>

\* C17: secrets reach the engine only through the environment: for every
\* orchestrator operation the passphrase is delivered as RESTIC_PASSWORD and
\* the secret access key as AWS_SECRET_ACCESS_KEY, overriding any inherited
\* value, and neither of them is ever placed in the argument vector.
C17_SecretsOnlyInEnvironment ==
    \A i \in DOMAIN engine :
        /\ engine[i].env.RESTIC_PASSWORD = passphrase
        /\ engine[i].env.AWS_SECRET_ACCESS_KEY = config.storage.secretAccessKey
        /\ \A j \in DOMAIN engine[i].args :
             engine[i].args[j] \notin { passphrase, config.storage.secretAccessKey }

\* C17 witness: the CLI process inherited other values of both variables and
\* the engine of a restore was started with the configured ones
C17_Witness ==
    /\ cmd = "restore()"
    /\ inherited.RESTIC_PASSWORD = "inherited-pass"
    /\ inherited.AWS_SECRET_ACCESS_KEY = "inherited-secret"
    /\ Len(engine) = 1
    /\ engine[1].env.RESTIC_PASSWORD = "flag-pass"
    /\ engine[1].env.AWS_SECRET_ACCESS_KEY = "secret"

\* C18: listSnapshots returns a list of snapshots for every engine run that
\* exits successfully: the parsed JSON array, or the empty list when the
\* engine prints null.
C18_ListForEverySuccessfulRun ==
    (cmd = "listSnapshots()" /\ pc = "done" /\ engine[1].ok) =>
        /\ result.kind = "return"
        /\ result.value.type = "array"

\* C20: no retry: each operation spawns the engine exactly once per call;
\* when that invocation fails (nonzero exit, timeout, output over the buffer
\* limit) the engine is not spawned again and the failure propagates to the
\* caller unchanged, except in the boolean probes checkRepo and check, which
\* return false.
C20_NoRetry ==
    /\ Len(engine) <= 1
    /\ pc = "done" =>
         /\ Len(engine) = 1
         /\ ~engine[1].running
         /\ engine[1].how \in Failures =>
              IF cmd \in { "checkRepo()", "check()" }
              THEN result = Return("false")
              ELSE result = ExecError(engine[1].how)

\* C20 witness: a restore whose engine was killed by the timeout, started
\* once, with the error of that run as the outcome of the call
C20_Witness ==
    /\ cmd = "restore()" /\ pc = "done"
    /\ Len(engine) = 1 /\ engine[1].how = "timeout"
    /\ result = Throw("Command failed (killed by timeout)")

----------------------------------------------------------------------------
(* Every storage target: getStorageEndpoint, the engine operations and the *)
(* bucket calls on a StorageConfig of any provider                         *)

Providers == { "r2", "s3", "b2", "minio" }

\* The StorageConfig records a caller can pass: the optional fields absent
\* or present, the endpoint also as the empty string
Targets ==
    { [ provider |-> p, bucket |-> "test", accountId |-> a,
        accessKeyId |-> "key", secretAccessKey |-> "secret",
        endpoint |-> e, region |-> r, jurisdiction |-> j ] :
        p \in Providers, a \in { Undefined, "abc" },
        e \in { Undefined, "", "https://minio.local:9000" },
        r \in { Undefined, "eu-west-1" }, j \in { Undefined, "eu" } }

TargetCalls == { "getStorageEndpoint()", "bucketExists", "createBucket" } \cup Operations

\* The other arguments of the engine operations
TargetInput(op) ==
    CASE op = "forget()" -> [retention |-> config.retention]
      [] op = "restore()" ->
           [snapshotId |-> "1", targetDir |-> "/tmp/restore",
            include |-> NoIncludes, exclude |-> NoIncludes]
      [] op = "backup()" ->
           [sourceDir |-> config.openclawDir, tags |-> << "clawstash" >>,
            excludes |-> << >>, includes |-> NoIncludes, dryRun |-> FALSE]
      [] op = "listSnapshots()" -> [tags |-> NoIncludes]
      [] OTHER -> DefaultOpts

InitTarget ==
    /\ cmd \in TargetCalls
    /\ opts \in { [storage |-> t] : t \in Targets }
    /\ now = Now
    /\ targetTime = NoTarget
    /\ inherited = NoInherited
    /\ envPass = Undefined
    /\ secretStore = Undefined
    /\ configured = TRUE
    /\ configFile = Saved(config)
    /\ keychain = Undefined
    /\ passFile = Undefined
    /\ saved = "none"
    /\ pc = CASE cmd = "bucketExists" -> "head"
              [] cmd = "createBucket" -> "put"
              [] OTHER -> "call"
    /\ passphrase = "flag-pass"
    /\ logs = << >>
    /\ exitCode = -1
    /\ engine = << >>
    /\ snapshots = << >>
    /\ selected = 0
    /\ output = << >>
    /\ result = NoResult
    /\ http = << >>
    /\ net = << >>
    /\ probe = 1

\* getStorageEndpoint(storage)
TargetEndpoint ==
    /\ pc = "call"
    /\ cmd = "getStorageEndpoint()"
    /\ result' = getStorageEndpoint(opts.storage)
    /\ pc' = "done"
    /\ UNCHANGED << cmd, opts, now, targetTime, inherited, envPass, secretStore, configured, configFile, keychain, passFile, saved, passphrase, logs,
                    exitCode, engine, snapshots, selected, output, http, net, probe >>

\* An engine operation called with { storage, passphrase }: runRestic /
\* runResticRaw build the environment first (restic.ts lines 99, 131), where
\* getResticRepoUrl throws for a target without an endpoint; checkRepo and
\* check turn that into false, the others let it through
TargetStart ==
    /\ pc = "call"
    /\ cmd \in Operations
    /\ IF getStorageEndpoint(opts.storage).kind = "throw"
       THEN /\ result' = IF cmd \in { "checkRepo()", "check()" }
                         THEN Return("false")
                         ELSE getStorageEndpoint(opts.storage)
            /\ pc' = "done"
            /\ UNCHANGED engine
       ELSE /\ engine' = Append(engine, Spawned(OpArgs(cmd, TargetInput(cmd)),
                                               [storage |-> opts.storage,
                                                passphrase |-> passphrase]))
            /\ pc' = "wait"
            /\ UNCHANGED result
    /\ UNCHANGED << cmd, opts, now, targetTime, inherited, envPass, secretStore, configured, configFile, keychain, passFile, saved, passphrase, logs,
                    exitCode, snapshots, selected, output, http, net, probe >>

NextTarget ==
    \/ TargetEndpoint
    \/ TargetStart \/ OpExit
    \/ HeadBucket \/ HeadAnswer
    \/ PutBucket \/ PutAnswer

SpecTarget == InitTarget /\ [][NextTarget]_vars

\* The first word of the engine command of each operation
EngineCommand(op) ==
    CASE op = "initRepo()" -> "init"
      [] op = "checkRepo()" -> "cat"
      [] op = "backup()" -> "backup"
      [] op = "restore()" -> "restore"
      [] op = "forget()" -> "forget"
      [] op = "listSnapshots()" -> "snapshots"
      [] op = "stats()" -> "stats"
      [] op = "check()" -> "check"

\* C22: every engine invocation (init, cat config, backup, restore,
\* snapshots, forget, stats, check) is prefixed with the option pair
\* -o s3.bucket-lookup=path when the provider is r2, b2 or minio, and carries
\* no such option when the provider is s3.
C22_PathStyleExceptS3 ==
    \A i \in DOMAIN engine :
        LET args == engine[i].args IN
        IF opts.storage.provider \in { "r2", "b2", "minio" }
        THEN /\ Len(args) >= 3
             /\ args[1] = "-o" /\ args[2] = "s3.bucket-lookup=path"
             /\ args[3] = EngineCommand(cmd)
        ELSE /\ opts.storage.provider = "s3"
             /\ args[1] = EngineCommand(cmd)
             /\ \A j \in DOMAIN args : args[j] \notin { "-o", "s3.bucket-lookup=path" }

\* C22 witness: snapshots on a b2 target ran with the option pair, and
\* stats on an s3 target without it
C22_Witness ==
    /\ pc = "done" /\ Len(engine) = 1
    /\ \/ /\ cmd = "listSnapshots()" /\ opts.storage.provider = "b2"
          /\ engine[1].args = << "-o", "s3.bucket-lookup=path", "snapshots", "--json" >>
       \/ /\ cmd = "stats()" /\ opts.storage.provider = "s3"
          /\ engine[1].args = << "stats", "--json", "--mode", "raw-data" >>

\* C23: getStorageEndpoint returns the explicit endpoint whenever one is
\* set (a non-empty string), for every provider; otherwise r2 yields
\* https://<accountId>[.<jurisdiction>].r2.cloudflarestorage.com and fails
\* when accountId is missing, s3 yields https://s3.<region>.amazonaws.com
\* with region defaulting to us-east-1, b2 yields its fixed endpoint, and
\* minio fails because it requires a custom endpoint.
C23_EndpointPrecedence ==
    (cmd = "getStorageEndpoint()" /\ pc = "done") =>
        LET t == opts.storage IN
        IF t.endpoint = "https://minio.local:9000"
        THEN result = Return("https://minio.local:9000")
        ELSE CASE t.provider = "r2" ->
                    IF t.accountId = Undefined THEN result.kind = "throw"
                    ELSE IF t.jurisdiction = "eu"
                    THEN result = Return("https://abc.eu.r2.cloudflarestorage.com")
                    ELSE result = Return("https://abc.r2.cloudflarestorage.com")
               [] t.provider = "s3" ->
                    IF t.region = "eu-west-1"
                    THEN result = Return("https://s3.eu-west-1.amazonaws.com")
                    ELSE result = Return("https://s3.us-east-1.amazonaws.com")
               [] t.provider = "b2" ->
                    result = Return("https://s3.us-west-004.backblazeb2.com")
               [] t.provider = "minio" -> result.kind = "throw"

\* C23 witness: a b2 target with an explicit endpoint resolved to that
\* endpoint, not to the fixed b2 one
C23_Witness ==
    /\ cmd = "getStorageEndpoint()" /\ pc = "done"
    /\ opts.storage.provider = "b2"
    /\ opts.storage.endpoint = "https://minio.local:9000"
    /\ result = Return("https://minio.local:9000")

\* The region named in an AWS endpoint of the model
UsEast == "https://s3.us-east-1.amazonaws.com"
EuWest == "https://s3.eu-west-1.amazonaws.com"

\* C26: for every storage target, the region used in the request
\* signature's credential scope and passed to the engine as
\* AWS_DEFAULT_REGION is the region from which the endpoint is derived; in
\* particular for provider s3 with no region configured both are us-east-1.
C26_OneRegion ==
    /\ \A i \in DOMAIN http :
         /\ http[i].endpoint = UsEast => http[i].region = "us-east-1"
         /\ http[i].endpoint = EuWest => http[i].region = "eu-west-1"
    /\ \A i \in DOMAIN engine :
         /\ engine[i].env.RESTIC_REPOSITORY = "s3:" \o UsEast \o "/test"
              => engine[i].env.AWS_DEFAULT_REGION = "us-east-1"
         /\ engine[i].env.RESTIC_REPOSITORY = "s3:" \o EuWest \o "/test"
              => engine[i].env.AWS_DEFAULT_REGION = "eu-west-1"

----------------------------------------------------------------------------
(* keychain.ts: setPassphrase followed by getPassphrase *)

\* null, as getPassphrase and readPassphraseFromFile return it
Null == "<null>"

Platforms == { "darwin", "linux", "win32" }

\* The passphrases a caller stores, and what the two stores held before
Passphrases == { "correct horse", " padded pass " }
KeychainBefore == { Undefined, "old-keychain" }
FileBefore == { Undefined, "", "old-file" }

\* String.prototype.trim on the values of the model
Trim(v) == IF v = " padded pass " THEN "padded pass" ELSE v

\* keychain.ts savePassphraseToFile: writeFile then chmod, true when both
\* succeed; the stores after it and the value returned
savePassphraseToFile(p, kc, pf, writeOk, chmodOk) ==
    [ keychain |-> kc,
      passFile |-> IF writeOk THEN p ELSE pf,
      ret |-> writeOk /\ chmodOk ]

\* keychain.ts setPassphrase: on darwin the entry is deleted (errors
\* ignored) and added again, on linux secret-tool stores it; any error of
\* the keychain tool, and every other platform, falls back to the file
setPassphrase(platform, p, kc, pf, deleteOk, addOk, writeOk, chmodOk) ==
    CASE platform = "darwin" ->
           IF addOk THEN [keychain |-> p, passFile |-> pf, ret |-> TRUE]
           ELSE savePassphraseToFile(p, IF deleteOk THEN Undefined ELSE kc, pf,
                                     writeOk, chmodOk)
      [] platform = "linux" ->
           IF addOk THEN [keychain |-> p, passFile |-> pf, ret |-> TRUE]
           ELSE savePassphraseToFile(p, kc, pf, writeOk, chmodOk)
      [] OTHER -> savePassphraseToFile(p, kc, pf, writeOk, chmodOk)

\* keychain.ts readPassphraseFromFile: content.trim() || null, null when
\* the file cannot be read
readPassphraseFromFile(pf, readOk) ==
    IF readOk /\ pf # Undefined /\ Truthy(Trim(pf)) THEN Trim(pf) ELSE Null

\* keychain.ts getPassphrase: the trimmed output of the keychain tool when
\* it succeeds with a non-empty value, otherwise the file
getPassphrase(platform, kc, pf, lookupOk, readOk) ==
    IF platform \in { "darwin", "linux" } /\ lookupOk /\ kc # Undefined /\ Truthy(Trim(kc))
    THEN Trim(kc)
    ELSE readPassphraseFromFile(pf, readOk)

InitKeychain ==
    /\ cmd = "setPassphrase()"
    /\ opts \in { [platform |-> pl, passphrase |-> p] : pl \in Platforms, p \in Passphrases }
    /\ now = Now
    /\ targetTime = NoTarget
    /\ inherited = NoInherited
    /\ envPass = Undefined
    /\ secretStore = Undefined
    /\ configured = TRUE
    /\ configFile = Saved(config)
    /\ keychain \in KeychainBefore
    /\ passFile \in FileBefore
    /\ saved = "none"
    /\ pc = "set"
    /\ passphrase = Undefined
    /\ logs = << >>
    /\ exitCode = -1
    /\ engine = << >>
    /\ snapshots = << >>
    /\ selected = 0
    /\ output = << >>
    /\ result = NoResult
    /\ http = << >>
    /\ net = << >>
    /\ probe = 0

\* setPassphrase(p) with the keychain tool and the file system working or
\* failing; deleting succeeds only when there is an entry
SetPassphrase ==
    /\ pc = "set"
    /\ \E deleteOk, addOk, writeOk, chmodOk \in BOOLEAN :
         /\ deleteOk => (opts.platform = "darwin" /\ keychain # Undefined)
         /\ LET after == setPassphrase(opts.platform, opts.passphrase, keychain, passFile,
                                       deleteOk, addOk, writeOk, chmodOk)
            IN /\ keychain' = after.keychain
               /\ passFile' = after.passFile
               /\ saved' = IF after.ret THEN "true" ELSE "false"
    /\ pc' = "get"
    /\ UNCHANGED << cmd, opts, now, targetTime, inherited, envPass, secretStore, configured,
                    configFile, passphrase, logs, exitCode, engine, snapshots, selected,
                    output, result, http, net, probe >>

\* The next getPassphrase(), with the keychain tool and the file readable
\* or not at that time
GetPassphrase ==
    /\ pc = "get"
    /\ \E lookupOk, readOk \in BOOLEAN :
         result' = Return(getPassphrase(opts.platform, keychain, passFile, lookupOk, readOk))
    /\ pc' = "done"
    /\ UNCHANGED << cmd, opts, now, targetTime, inherited, envPass, secretStore, configured,
                    configFile, keychain, passFile, saved, passphrase, logs, exitCode, engine,
                    snapshots, selected, output, http, net, probe >>

NextKeychain == SetPassphrase \/ GetPassphrase

SpecKeychain == InitKeychain /\ [][NextKeychain]_vars

\* C27: secret-store round trip: after setPassphrase(p) returns true, the
\* next getPassphrase() returns p, for every combination of keychain
\* availability (working or failing, at store time and at read time) and of
\* values previously stored in the keychain and in the fallback file.
C27_RoundTrip ==
    (pc = "done" /\ saved = "true") => result = Return(opts.passphrase)

----------------------------------------------------------------------------
(* setup.ts setupCommand *)

DefaultDir == "/home/user/.openclaw"
CustomDir == "/data/openclaw"

\* What the network answers to setup's requests
SetupAnswers == { Response(200, ""), Response(403, DeniedBody), Rejected }

\* The run of setup: what it finds on the machine and what the operator
\* answers to the prompts (Undefined: the prompt was cancelled). The prompts
\* validate the credentials, so those answers are complete; the region is
\* asked for s3 only and the account for r2 only.
SetupInputs ==
    { [ existing |-> ex, overwrite |-> ow, defaultExists |-> de, customExists |-> ce,
        provider |-> pr, region |-> rg, passphrase |-> pw, interval |-> iv,
        platform |-> pl, keychainBefore |-> kb ] :
        ex \in BOOLEAN, ow \in BOOLEAN, de \in BOOLEAN, ce \in BOOLEAN,
        pr \in Providers \cup { Undefined }, rg \in { Undefined, "us-east-1", "eu-west-1" },
        pw \in { Undefined, "correct horse" }, iv \in { 0, 60 },
        pl \in { "darwin", "win32" }, kb \in KeychainBefore }

\* The combinations that are distinct runs: an answer that is never asked
\* for has one value
SetupRuns ==
    { i \in SetupInputs :
        /\ i.overwrite => i.existing
        /\ i.customExists => ~i.defaultExists
        /\ (i.region # Undefined) <=> (i.provider = "s3")
        /\ (i.existing /\ ~i.overwrite) =>
             (i.defaultExists /\ i.provider = "r2" /\ i.passphrase # Undefined /\ i.interval = 60)
        /\ (~i.defaultExists /\ ~i.customExists) =>
             (i.provider = "r2" /\ i.passphrase # Undefined /\ i.interval = 60)
        /\ i.provider = Undefined => (i.passphrase # Undefined /\ i.interval = 60)
        /\ i.passphrase = Undefined => i.interval = 60 }

\* The config file and the keychain before setup started
ConfigBefore == IF opts.existing THEN Saved(config) ELSE NoConfig

\* setup.ts lines 171-180: the StorageConfig built from the answers and the
\* detected jurisdiction
SetupStorage(o, jur) ==
    [ provider |-> o.provider, bucket |-> "clawstash-backup",
      accessKeyId |-> "key", secretAccessKey |-> "secret",
      accountId |-> IF o.provider = "r2" THEN "abc" ELSE Undefined,
      region |-> o.region,
      endpoint |-> CASE o.provider = "b2" -> "https://s3.us-west-004.backblazeb2.com"
                     [] o.provider = "minio" -> "https://minio.local:9000"
                     [] OTHER -> Undefined,
      jurisdiction |-> IF Truthy(jur) THEN jur ELSE Undefined ]

\* The storage of the run once the jurisdiction is known
storage == SetupStorage(opts, result.value)

\* setup.ts line 293: scan.dir, the dir of the first scanOpenClawDir()
\* call, which is the default directory (openclaw.ts line 155)
ScanDir(o) == DefaultDir

\* initRepo runs whatever checkRepo returned
NeedsInitAlways(repoExists) == TRUE

\* setup.ts lines 274-277: initRepo runs when checkRepo returned false
NeedsInit(repoExists) == repoExists # Return("true")

InitSetup ==
    /\ cmd = "setup"
    /\ opts \in SetupRuns
    /\ now = Now
    /\ targetTime = NoTarget
    /\ inherited = NoInherited
    /\ envPass = Undefined
    /\ secretStore = Undefined
    /\ configured = opts.existing
    /\ configFile = ConfigBefore
    /\ keychain = opts.keychainBefore
    /\ passFile = Undefined
    /\ saved = "none"
    /\ pc = "setup-load"
    /\ passphrase = Undefined
    /\ logs = << >>
    /\ exitCode = -1
    /\ engine = << >>
    /\ snapshots = << >>
    /\ selected = 0
    /\ output = << >>
    /\ result = NoResult
    /\ http = << >>
    /\ net = << >>
    /\ probe = 0

\* Lines 24-36: an existing configuration is kept unless the operator
\* confirms
SetupLoad ==
    /\ pc = "setup-load"
    /\ IF configured /\ ~opts.overwrite
       THEN Finish(0, << Line("info", "Setup cancelled.", {}) >>)
       ELSE Goto("setup-scan")
    /\ UNCHANGED << cmd, opts, now, targetTime, inherited, envPass, secretStore, configured,
                    configFile, keychain, passFile, saved, passphrase, engine, snapshots,
                    selected, output, result, http, net, probe >>

\* Lines 43-60: the default directory is scanned; when it is not there the
\* operator's path is scanned, and setup exits when that is not there either
SetupScan ==
    /\ pc = "setup-scan"
    /\ IF ~opts.defaultExists /\ ~opts.customExists
       THEN Finish(1, << Line("error", "Directory not found", {}),
                         Line("info", "Install OpenClaw first", {}) >>)
       ELSE Goto("setup-provider")
    /\ UNCHANGED << cmd, opts, now, targetTime, inherited, envPass, secretStore, configured,
                    configFile, keychain, passFile, saved, passphrase, engine, snapshots,
                    selected, output, result, http, net, probe >>

\* Lines 69-156: the provider and the credentials are asked for
SetupProvider ==
    /\ pc = "setup-provider"
    /\ IF opts.provider = Undefined
       THEN Finish(0, << Line("info", "Setup cancelled.", {}) >>) /\ UNCHANGED result
       ELSE /\ result' = Return("")
            /\ Goto(IF opts.provider = "r2" THEN "setup-probe" ELSE "setup-passphrase")
    /\ UNCHANGED << cmd, opts, now, targetTime, inherited, envPass, secretStore, configured,
                    configFile, keychain, passFile, saved, passphrase, engine, snapshots,
                    selected, output, http, net, probe >>

\* Lines 157-169: detectR2Jurisdiction probes the default endpoint, then eu
\* when the first did not answer 200
SetupDetect ==
    /\ pc = "setup-probe"
    /\ \E a1, a2 \in SetupAnswers :
         IF Is200(a1)
         THEN /\ http' = http \o << ProbeRequest("abc", jurisdictions[1]) >>
              /\ net' = net \o << a1 >>
              /\ result' = Return(jurisdictions[1])
         ELSE /\ http' = http \o << ProbeRequest("abc", jurisdictions[1]),
                                    ProbeRequest("abc", jurisdictions[2]) >>
              /\ net' = net \o << a1, a2 >>
              /\ result' = Return(IF Is200(a2) THEN jurisdictions[2] ELSE "")
    /\ Goto("setup-passphrase")
    /\ UNCHANGED << cmd, opts, now, targetTime, inherited, envPass, secretStore, configured,
                    configFile, keychain, passFile, saved, passphrase, engine, snapshots,
                    selected, output, probe >>

\* Lines 191-222: the passphrase is asked for and saved with setPassphrase
SetupPassphrase ==
    /\ pc = "setup-passphrase"
    /\ IF opts.passphrase = Undefined
       THEN /\ Finish(0, << Line("info", "Setup cancelled.", {}) >>)
            /\ UNCHANGED << keychain, passFile, saved, passphrase >>
       ELSE \E deleteOk, addOk, writeOk, chmodOk, keychainOk \in BOOLEAN :
              /\ deleteOk => (opts.platform = "darwin" /\ keychain # Undefined)
              /\ LET after == setPassphrase(opts.platform, opts.passphrase, keychain,
                                            passFile, deleteOk, addOk, writeOk, chmodOk)
                 IN /\ keychain' = after.keychain
                    /\ passFile' = after.passFile
                    /\ saved' = IF after.ret THEN "true" ELSE "false"
                    /\ Step("setup-install",
                            << IF after.ret /\ keychainOk
                               THEN Line("success", "Passphrase saved to system keychain", {})
                               ELSE IF after.ret
                               THEN Line("success", "Passphrase saved to ~/.clawstash/passphrase", {})
                               ELSE Line("warn", "Could not save passphrase.", {}) >>)
              /\ passphrase' = opts.passphrase
    /\ UNCHANGED << cmd, opts, now, targetTime, inherited, envPass, secretStore, configured,
                    configFile, engine, snapshots, selected, output, result, http, net, probe >>

\* Lines 230-255: the schedule is asked for and the engine is installed
SetupInstall ==
    /\ pc = "setup-install"
    /\ \E installed \in BOOLEAN :
         IF installed
         THEN Goto("setup-head")
         ELSE Finish(1, << Line("error", "Failed to install restic", {}) >>)
    /\ UNCHANGED << cmd, opts, now, targetTime, inherited, envPass, secretStore, configured,
                    configFile, keychain, passFile, saved, passphrase, engine, snapshots,
                    selected, output, result, http, net, probe >>

\* Lines 262-270, ensureBucket's bucketExists: the HEAD and its answer
SetupHead ==
    /\ pc = "setup-head"
    /\ \E answer \in SetupAnswers :
         /\ http' = Append(http, BucketRequest("HEAD", storage))
         /\ net' = Append(net, answer)
         /\ Goto(IF bucketExists(answer) THEN "setup-check" ELSE "setup-put")
    /\ UNCHANGED << cmd, opts, now, targetTime, inherited, envPass, secretStore, configured,
                    configFile, keychain, passFile, saved, passphrase, engine, snapshots,
                    selected, output, result, probe >>

\* Lines 262-270, ensureBucket's createBucket: the PUT and its answer; an
\* error ends setup
SetupPut ==
    /\ pc = "setup-put"
    /\ \E answer \in SetupAnswers \cup { Response(409, "") } :
         /\ http' = Append(http, BucketRequest("PUT", storage))
         /\ net' = Append(net, answer)
         /\ IF createBucket(answer).kind = "throw"
            THEN Finish(1, << Line("error", "Failed to create bucket", {}),
                              Line("info", "Check your credentials and permissions.", {}) >>)
            ELSE Goto("setup-check")
    /\ UNCHANGED << cmd, opts, now, targetTime, inherited, envPass, secretStore, configured,
                    configFile, keychain, passFile, saved, passphrase, engine, snapshots,
                    selected, output, result, probe >>

\* Line 274: checkRepo starts the engine
SetupCheckRepo ==
    /\ pc = "setup-check"
    /\ engine' = Append(engine, Spawned(checkRepoArgs,
                                        [storage |-> storage, passphrase |-> passphrase]))
    /\ Goto("setup-check-wait")
    /\ UNCHANGED << cmd, opts, now, targetTime, inherited, envPass, secretStore, configured,
                    configFile, keychain, passFile, saved, passphrase, snapshots,
                    selected, output, result, http, net, probe >>

\* Lines 274-277: checkRepo returns
SetupCheckExit ==
    /\ pc = "setup-check-wait"
    /\ \E how \in Outcomes :
         /\ Await(how)
         /\ IF NeedsInit(booleanProbe(how))
            THEN Goto("setup-init")
            ELSE Step("setup-save", << Line("success", "Connected to existing repository", {}) >>)
    /\ UNCHANGED << cmd, opts, now, targetTime, inherited, envPass, secretStore, configured,
                    configFile, keychain, passFile, saved, passphrase, snapshots,
                    selected, output, result, http, net, probe >>

\* Line 279: initRepo starts the engine
SetupInitRepo ==
    /\ pc = "setup-init"
    /\ engine' = Append(engine, Spawned(initRepoArgs,
                                        [storage |-> storage, passphrase |-> passphrase]))
    /\ Goto("setup-init-wait")
    /\ UNCHANGED << cmd, opts, now, targetTime, inherited, envPass, secretStore, configured,
                    configFile, keychain, passFile, saved, passphrase, snapshots,
                    selected, output, result, http, net, probe >>

\* Lines 279-286: initRepo returns or throws
SetupInitExit ==
    /\ pc = "setup-init-wait"
    /\ \E how \in Outcomes :
         /\ Await(how)
         /\ IF how = "ok"
            THEN Step("setup-save", << Line("success", "Repository initialized", {}) >>)
            ELSE Finish(1, << Line("error", "Failed to initialize repository", {}),
                              Line("info", "Check your credentials and bucket name.", {}) >>)
    /\ UNCHANGED << cmd, opts, now, targetTime, inherited, envPass, secretStore, configured,
                    configFile, keychain, passFile, saved, passphrase, snapshots,
                    selected, output, result, http, net, probe >>

\* Lines 291-306: the configuration is built and saved
SetupSave ==
    /\ pc = "setup-save"
    /\ configFile' = SavedAs(ScanDir(opts), storage,
                             [enabled |-> opts.interval > 0,
                              intervalMinutes |-> IF opts.interval # 0 THEN opts.interval ELSE 60])
    /\ configured' = TRUE
    /\ Step("setup-saved", << Line("success", "Config saved", {}) >>)
    /\ UNCHANGED << cmd, opts, now, targetTime, inherited, envPass, secretStore,
                    keychain, passFile, saved, passphrase, engine, snapshots,
                    selected, output, result, http, net, probe >>

\* Lines 308-370: the closing notes. The first backup, when asked for, is
\* backupCommand({ passphrase }) and the service is daemonInstall(); both
\* are commands of their own and neither is part of this run
SetupComplete ==
    /\ pc = "setup-saved"
    /\ Finish(0, << Line("success", "Setup complete!", {}) >>)
    /\ UNCHANGED << cmd, opts, now, targetTime, inherited, envPass, secretStore, configured,
                    configFile, keychain, passFile, saved, passphrase, engine, snapshots,
                    selected, output, result, http, net, probe >>

NextSetup ==
    \/ SetupLoad \/ SetupScan \/ SetupProvider \/ SetupDetect \/ SetupPassphrase
    \/ SetupInstall \/ SetupHead \/ SetupPut
    \/ SetupCheckRepo \/ SetupCheckExit \/ SetupInitRepo \/ SetupInitExit
    \/ SetupSave \/ SetupComplete

SpecSetup == InitSetup /\ [][NextSetup]_vars

\* The engine command of an invocation, after the extra arguments
Word(i) == IF engine[i].args[1] = "-o" THEN engine[i].args[3] ELSE engine[i].args[1]

\* The bucket step has succeeded: the HEAD was answered 200, or the PUT was
\* classified Created or AlreadyOwned
BucketReady ==
    \E i \in DOMAIN net :
        \/ http[i].method = "HEAD" /\ Is200(net[i])
        \/ http[i].method = "PUT" /\ createBucket(net[i]).kind = "return"

\* The repository step has succeeded: checkRepo returned true, or initRepo
\* returned
RepoReady ==
    /\ Len(engine) >= 1
    /\ \/ Word(1) = "cat" /\ engine[1].ok
       \/ Len(engine) = 2 /\ Word(2) = "init" /\ engine[2].ok

\* setup has written the configuration
ConfigWritten == configFile # ConfigBefore

\* C25: setup runs ensureBucket, then checkRepo, then initRepo only when
\* checkRepo returned false, and writes the configuration only after the
\* bucket step and the repository step have both succeeded; initRepo is
\* never invoked for a repository that checkRepo reported as existing.
C25_BucketThenCheckThenInit ==
    /\ Len(engine) <= 2
    /\ Len(engine) >= 1 => (BucketReady /\ Word(1) = "cat")
    /\ Len(engine) = 2 =>
         /\ Word(2) = "init"
         /\ ~engine[1].running /\ ~engine[1].ok
    /\ ConfigWritten => (BucketReady /\ RepoReady)
    /\ \A i \in DOMAIN http :
         http[i].method = "PUT" => (i > 1 /\ http[i - 1].method = "HEAD" /\ ~Is200(net[i - 1]))

\* C25 witness: the bucket was created, checkRepo failed, initRepo
\* succeeded and the configuration was written
C25_Witness ==
    /\ pc = "done" /\ exitCode = 0
    /\ \E i \in DOMAIN http : http[i].method = "PUT" /\ net[i] = Response(200, "")
    /\ Len(engine) = 2 /\ engine[1].how = "nonzero" /\ engine[2].ok
    /\ ConfigWritten /\ configFile.storage.bucket = "clawstash-backup"

\* C28: the openclawDir that setup writes to the configuration is the
\* directory that setup found to exist: the default directory when it
\* exists, and otherwise the custom path entered by the operator whose
\* rescan succeeded.
C28_SavedDirIsFoundDir ==
    ConfigWritten =>
        configFile.openclawDir = (IF opts.defaultExists THEN DefaultDir ELSE CustomDir)

\* The run ended at the install, bucket or repository step
AbortedLate ==
    /\ pc = "done" /\ exitCode = 1
    /\ \E i \in DOMAIN logs :
         logs[i].text \in { "Failed to install restic", "Failed to create bucket",
                            "Failed to initialize repository" }

\* C29: if setup aborts at the restic-install, bucket or repository step,
\* nothing has been persisted: neither the configuration record nor the
\* stored passphrase (keychain or fallback file) differs from what it was
\* before setup started.
C29_AbortPersistsNothing ==
    AbortedLate =>
        /\ configFile = ConfigBefore
        /\ keychain = opts.keychainBefore
        /\ passFile = Undefined

----------------------------------------------------------------------------
(* Every operation that can run against a configuration on disk: the six *)
(* commands, the bucket calls, the engine operations and setup           *)

InitDisk == InitCmd \/ InitS3 \/ InitOps \/ InitSetup

NextDisk == NextCmd \/ NextS3 \/ NextOps \/ NextSetup

SpecDisk == InitDisk /\ [][NextDisk]_vars

\* The operations C24 lists: everything but setup
ReadOnlyOperations == Commands \cup S3Functions \cup Operations

\* C24: the persisted configuration record is only read, never written, by
\* backup, restore, forget, snapshots, status, doctor, the bucket operations
\* and the engine operations: no step of any of them, succeeding or failing,
\* changes the stored configuration; only setup (its saveConfig step) writes
\* it.
C24_OnlySetupWritesConfig ==
    [][ /\ cmd \in ReadOnlyOperations => (configFile' = configFile /\ configured' = configured)
        /\ configFile' # configFile => (cmd = "setup" /\ pc = "setup-save") ]_vars

\* C24's case: a command, a bucket call or an engine operation has run to
\* its end after talking to the engine or the network, once succeeding and
\* once failing, and the stored configuration is the one it started with; or
\* setup has written a configuration
C24_Witness ==
    \/ /\ cmd = "backup" /\ pc = "done" /\ exitCode = 1 /\ Len(engine) > 0
       /\ configFile = Saved(config)
    \/ /\ cmd = "ensureBucket" /\ pc = "done" /\ Len(net) = 2 /\ result.kind = "return"
       /\ configFile = Saved(config)

----------------------------------------------------------------------------
(* openclaw.ts categorizeFile *)

\* A relative path is the sequence of its segments (the names between the
\* "/" separators); the names the tests of categorizeFile tell apart.
\* openclaw.yaml stands for every name that starts with "openclaw.": the
\* two equalities of the first test are cases of its startsWith test
Segments ==
    { "openclaw.yaml", ".env", "credentials", "auth", "workspace",
      "workspace-dev", "skills", "sessions", "a.jsonl", "memory", "main.sqlite",
      "agents", "agent", "settings", "notes.md" }

MaxDepth == 4

\* The string tests on one name
StartsWithOpenclawDot(seg) == seg \in { "openclaw.json", "openclaw.json5", "openclaw.yaml" }
StartsWithWorkspaceDash(seg) == seg = "workspace-dev"
EndsWithJsonl(seg) == seg = "a.jsonl"
EndsWithSessionsJson(seg) == seg = "sessions.json"
EndsWithSqlite(seg) == seg \in { "main.sqlite", "memory.sqlite" }
IncludesMemory(seg) == seg \in { "memory", "memory.sqlite" }

\* relativePath.startsWith(dir + "/")
StartsWithDir(path, dir) == Len(path) >= 2 /\ path[1] = dir

\* relativePath.includes("/" + dir + "/")
IncludesDir(path, dir) == \E i \in 2..(Len(path) - 1) : path[i] = dir

\* The test of each if statement of categorizeFile, lines 67-112
Matches(category, path) ==
    CASE category = "config" ->
           \/ path = << "openclaw.json" >>
           \/ path = << "openclaw.json5" >>
           \/ Len(path) = 1 /\ StartsWithOpenclawDot(path[1])
      [] category = "secrets" ->
           \/ path = << ".env" >>
           \/ StartsWithDir(path, "credentials")
           \/ StartsWithDir(path, "auth")
      [] category = "workspace" ->
           \/ StartsWithDir(path, "workspace")
           \/ Len(path) >= 1 /\ StartsWithWorkspaceDash(path[1])
      [] category = "skills" -> StartsWithDir(path, "skills")
      [] category = "sessions" ->
           /\ IncludesDir(path, "sessions")
           /\ EndsWithJsonl(path[Len(path)]) \/ EndsWithSessionsJson(path[Len(path)])
      [] category = "memory" ->
           /\ Len(path) >= 1 /\ EndsWithSqlite(path[Len(path)])
           /\ \/ StartsWithDir(path, "memory")
              \/ \E i \in DOMAIN path : IncludesMemory(path[i])
      [] category = "agents" -> Len(path) >= 4 /\ path[1] = "agents" /\ path[3] = "agent"
      [] category = "settings" -> StartsWithDir(path, "settings")

\* The session test comes first
categorizeSessionsFirst(path) ==
    IF Matches("sessions", path) THEN "sessions"
    ELSE IF Matches("config", path) THEN "config"
    ELSE IF Matches("secrets", path) THEN "secrets"
    ELSE IF Matches("workspace", path) THEN "workspace"
    ELSE IF Matches("skills", path) THEN "skills"
    ELSE IF Matches("memory", path) THEN "memory"
    ELSE IF Matches("agents", path) THEN "agents"
    ELSE IF Matches("settings", path) THEN "settings"
    ELSE "other"

\* openclaw.ts categorizeFile: the if statements in their order
categorizeFile(path) ==
    IF Matches("config", path) THEN "config"
    ELSE IF Matches("secrets", path) THEN "secrets"
    ELSE IF Matches("workspace", path) THEN "workspace"
    ELSE IF Matches("skills", path) THEN "skills"
    ELSE IF Matches("sessions", path) THEN "sessions"
    ELSE IF Matches("memory", path) THEN "memory"
    ELSE IF Matches("agents", path) THEN "agents"
    ELSE IF Matches("settings", path) THEN "settings"
    ELSE "other"

InitCategorize ==
    /\ cmd = "categorizeFile"
    /\ opts \in { [path |-> q] : q \in SeqsUpTo(Segments, MaxDepth) }
    /\ now = Now
    /\ targetTime = NoTarget
    /\ inherited = NoInherited
    /\ envPass = Undefined
    /\ secretStore = Undefined
    /\ configured = TRUE
    /\ configFile = Saved(config)
    /\ keychain = Undefined
    /\ passFile = Undefined
    /\ saved = "none"
    /\ pc = "call"
    /\ passphrase = Undefined
    /\ logs = << >>
    /\ exitCode = -1
    /\ engine = << >>
    /\ snapshots = << >>
    /\ selected = 0
    /\ output = << >>
    /\ result = NoResult
    /\ http = << >>
    /\ net = << >>
    /\ probe = 0

\* categorizeFile(relativePath)
Categorize ==
    /\ pc = "call"
    /\ result' = Return(categorizeFile(opts.path))
    /\ pc' = "done"
    /\ UNCHANGED << cmd, opts, now, targetTime, inherited, envPass, secretStore, configured, configFile, keychain, passFile, saved, passphrase, logs,
                    exitCode, engine, snapshots, selected, output, http, net, probe >>

NextCategorize == Categorize

SpecCategorize == InitCategorize /\ [][NextCategorize]_vars

\* The order in which the claim lists the rules
RuleOrder ==
    << "config", "secrets", "workspace", "skills", "sessions", "memory", "agents", "settings" >>

\* C15: categorizeFile is total and deterministic: every relative path maps
\* to exactly one of the nine categories, decided by the first matching rule
\* in the order config, secrets, workspace, skills, sessions, memory, agents,
\* settings, and `other` when none matches; any path under workspace/
\* (workspace/skills/... included) is workspace, and a top-level skills/...
\* path is skills.
C15_FirstMatchingRule ==
    pc = "done" =>
        /\ result.kind = "return"
        /\ result.value \in { RuleOrder[k] : k \in 1..8 } \cup { "other" }
        /\ \A k \in 1..8 :
             result.value = RuleOrder[k]
                 <=> /\ Matches(RuleOrder[k], opts.path)
                     /\ \A j \in 1..(k - 1) : ~Matches(RuleOrder[j], opts.path)
        /\ result.value = "other" <=> \A k \in 1..8 : ~Matches(RuleOrder[k], opts.path)
        /\ (Len(opts.path) >= 2 /\ opts.path[1] = "workspace") => result.value = "workspace"
        /\ (Len(opts.path) >= 2 /\ opts.path[1] = "skills") => result.value = "skills"

\* C15 witness: workspace/sessions/a.jsonl, which also passes the session
\* test, is workspace
C15_Witness ==
    /\ pc = "done"
    /\ opts.path = << "workspace", "sessions", "a.jsonl" >>
    /\ Matches("sessions", opts.path)
    /\ result = Return("workspace")

====
